---------------------------- MODULE Spec2Model ----------------------------
(***************************************************************************)
(* State-machine model of the ck-rust concurrency toolkit.                 *)
(*                                                                         *)
(* Every shared-memory access of the source (an atomic load, store, CAS or *)
(* read-modify-write) is one step of the thread that performs it; threads  *)
(* interleave between steps.  Accesses to data only the running thread     *)
(* touches are folded into the neighbouring step.  Each component has its  *)
(* own next-state relation and specification over the common variables.    *)
(***************************************************************************)
EXTENDS Integers, Sequences, FiniteSets, TLC

(***************************************************************************)
(* Null pointer / "no value".                                              *)
(***************************************************************************)
NULL == 0

(***************************************************************************)
(* State                                                                   *)
(***************************************************************************)
\* Epoch-based reclamation: src/src/epoch.rs
VARIABLES
    GLOBAL_EPOCH,   \* static GLOBAL_EPOCH
    erecords,       \* Epoch.records: head of the record list (a guard id or NULL)
    enext,          \* EpochRecord.next, per record
    epoch,          \* EpochRecord.epoch, per record
    active,         \* EpochRecord.active, per record
    garbage,        \* EpochRecord.garbage: per record, bucket -> set of <<ptr, e>>,
                    \*   e being the record's local epoch when ptr was deferred
    epc,            \* per thread: the position of the thread in its current call
    eglobal,        \* per thread: the local `global` of enter / try_advance
    ecur,           \* per thread: the local `head` of register / `current` of try_advance
    enextptr,       \* the next address the allocator hands out
    ecalls,         \* the number of calls started so far
    reclaimLog      \* history: for every free, the pointer, the epoch it was deferred
                    \*   at and the local epochs of the records active at that moment

epochVars == <<GLOBAL_EPOCH, erecords, enext, epoch, active, garbage, epc,
               eglobal, ecur, enextptr, ecalls, reclaimLog>>

\* Hazard pointers: src/src/hp.rs
VARIABLES
    hrecords,       \* HazardPointers.records: head of the record list
    hnext,          \* HpRecord.next, per record
    hazards,        \* HpRecord.hazards, per record: slot -> address or NULL
    hactive,        \* HpRecord.active, per record
    retire_list,    \* HpRecord.retire_list, per record: sequence of addresses
    hpc,            \* per thread: the position of the thread in its current call
    hcur,           \* per thread: local `head` of register / `current` of collect_hazards
    hslot,          \* per thread: index of the slot loop in collect_hazards / clear_all
    hcollected,     \* per thread: the local `hazards` of scan
    freed,          \* addresses whose destructor has run and that are not allocated again
    retired,        \* addresses that were passed to retire
    hcalls,         \* the number of calls started so far
    scanKept,       \* history: addresses that the retain of some scan has kept
    heldSince,      \* history: <<g, slot, p>> such that slot of record g has held p
                    \*   without interruption since before p was retired
    scanHeld        \* history: per thread in scan, the <<g, slot, p>> such that
                    \*   p is on the thread's retire list and slot of the active
                    \*   record g has held p without interruption since the scan
                    \*   was called

hpVars == <<hrecords, hnext, hazards, hactive, retire_list, hpc, hcur, hslot,
            hcollected, freed, retired, hcalls, scanKept, heldSince, scanHeld>>

\* Treiber stack: src/src/stack.rs (the HP-protected stack of src/src/hp_stack.rs
\* has the same head and entries)
VARIABLES
    shead,          \* Stack.head / HpStack.head
    snext,          \* StackEntry.next, per entry
    spc,            \* per thread: the position of the thread in its current call
    sentry,         \* per thread: the argument `entry` of push
    slhead,         \* per thread: the local `head` of push / pop
    slnext,         \* per thread: the local `next` of pop
    sret,           \* per thread: what the last pop returned (NULL for None)
    scalls,         \* the number of calls started so far
    sgiven,         \* history: entries that were handed to push
    smodel,         \* history: the entries in the stack, last pushed first, each
                    \*   put at its push's CAS and taken at its pop's CAS
    spopcount,      \* history: per entry, the number of pops that returned it
    sexpect,        \* history: per thread, the head of smodel when the last pop
                    \*   took effect (NULL when smodel was empty)
    sall            \* history: for each pop_all, in the order of their swaps, the
                    \*   head it returned and smodel at the swap

stackVars == <<shead, snext, spc, sentry, slhead, slnext, sret, scalls, sgiven,
               smodel, spopcount, sexpect, sall>>

\* HP-protected stack: src/src/hp_stack.rs; its guards are the threads of the
\* hazard-pointer domain, and their positions are in hpc
VARIABLES
    hshead,         \* HpStack.head
    hsnext,         \* StackEntry.next, per entry
    hsentry,        \* per thread: the argument `entry` of push
    hslhead,        \* per thread: the local `head` of push / pop; the entry a pop
                    \*   returned until it is retired
    hslnext,        \* per thread: the local `next` of pop
    hsused,         \* history: addresses that were allocated for an entry
    hsmodel         \* history: the entries in the stack, last pushed first

hsVars == <<hshead, hsnext, hsentry, hslhead, hslnext, hsused, hsmodel>>

\* HP-protected FIFO: src/src/hp_fifo.rs; its guards are the threads of the
\* hazard-pointer domain, and their positions are in hpc
VARIABLES
    hfhead,         \* HpFifo.head
    hftail,         \* HpFifo.tail
    hfnext,         \* FifoEntry.next, per entry
    hfentry,        \* per thread: the argument `entry` of enqueue
    hfl,            \* per thread: the local `tail` of enqueue / `head` of dequeue
    hflnext,        \* per thread: the local `next`
    hfheld,         \* per thread: entries its dequeues returned, not retired yet
    hfby,           \* history: per thread, the entries it enqueued, in call order
    hfdeq           \* history: the entries dequeues returned, in the order of
                    \*   their CASes of head

hfVars == <<hfhead, hftail, hfnext, hfentry, hfl, hflnext, hfheld, hfby, hfdeq>>

\* FIFO queues of src/src/fifo.rs: SpscFifo and MpmcFifo have the same fields;
\* MpmcFifo keeps head and tail in SpinLocks
VARIABLES
    fhead,          \* head
    ftail,          \* tail
    fnext,          \* FifoEntry.next, per entry
    head_locked,    \* MpmcFifo: head.locked (FasLock)
    tail_locked,    \* MpmcFifo: tail.locked (FasLock)
    fpc,            \* per thread: the position of the thread in its current call
    fentry,         \* per thread: the argument `entry` of enqueue; the local
                    \*   `next` of SpscFifo::dequeue
    fl,             \* per thread: the local `tail` of enqueue / `head` of dequeue
    fcalls,         \* the number of calls started so far
    fenq,           \* history: the entries enqueued, in the order of the
                    \*   producer's calls (Spsc) / of the tail lock (Mpmc)
    fdeq            \* history: the entries dequeues returned, in the order in
                    \*   which they were taken from head

fifoVars == <<fhead, ftail, fnext, head_locked, tail_locked, fpc, fentry, fl,
              fcalls, fenq, fdeq>>

\* SPSC ring buffer: src/src/ring.rs
VARIABLES
    rbuffer,        \* SpscRing.buffer: per slot, the item written to it
    rinit,          \* per slot: whether it holds an item that was written and not
                    \*   read (moved out) yet
    rhead,          \* SpscRing.head
    rtail,          \* SpscRing.tail
    rpc,            \* the positions of the producer and of the consumer
    ritem,          \* producer: the argument `item`; consumer: the local `item`
    rl,             \* producer: the local `tail`; consumer: the local `head`
    rcalls,         \* the number of calls started so far
    renq,           \* history: the items whose enqueue returned Ok, in order
    rdeq            \* history: the items dequeue returned, in order

ringVars == <<rbuffer, rinit, rhead, rtail, rpc, ritem, rl, rcalls, renq, rdeq>>

\* Sequence lock: src/src/sequence.rs, protecting two words of data
VARIABLES
    sequence,       \* SeqLock.sequence, an AtomicU32, as <<high half, low half>>
    sqdata,         \* the protected data: two words
    sqwpc,          \* the position of the writer
    sqbegun,        \* history: the number of calls of write that have begun
    sqended,        \* history: the number of calls of write_end so far
    sqpc,           \* per reader: its position
    sqver,          \* per reader: the local `version`
    sqres,          \* per reader: the words its closure has read; what the last
                    \*   read returned
    sqstart,        \* history: per reader, sqended when its read was called
    sqseen,         \* history: per reader, sqended when read_begin returned
    sqcalls         \* the number of calls of read started so far

seqVars == <<sequence, sqdata, sqwpc, sqbegun, sqended, sqpc, sqver, sqres,
             sqstart, sqseen, sqcalls>>

\* Ticket lock: src/src/spinlock.rs
VARIABLES
    next_ticket,    \* TicketLock.next_ticket
    now_serving,    \* TicketLock.now_serving
    tpc,            \* per thread: its position
    tticket,        \* per thread: the local `ticket`
    tkcalls         \* the number of calls of lock and try_lock started so far

ticketVars == <<next_ticket, now_serving, tpc, tticket, tkcalls>>

\* Phase-fair reader-writer lock: src/src/pflock.rs
VARIABLES
    pfstate,        \* PfLock.state, an AtomicU32
    pfpc,           \* per thread: its position
    pflocal,        \* per thread: the local `state`
    pfcalls,        \* the number of calls of read and write started so far
    pfbefore,       \* history: per thread in write, the read calls that were
                    \*   spinning when its call started and have no guard yet
    pfdropped       \* history: per thread in read, whether a write guard was
                    \*   dropped while it was spinning

pfVars == <<pfstate, pfpc, pflocal, pfcalls, pfbefore, pfdropped>>

\* Exponential backoff: src/src/backoff.rs
VARIABLES
    bvalue,         \* Backoff.value
    binit,          \* history: the value the instance was constructed with
    blast           \* history: the last call made on the instance

backoffVars == <<bvalue, binit, blast>>

\* Concurrent bitmap: src/src/bitmap.rs
VARIABLES
    bwords,         \* Bitmap.words: word index -> value of the AtomicUsize
    bret,           \* the value the last get/set/clear/toggle returned
    ppc,            \* position of the thread calling popcount()
    ppos,           \* popcount: index of the next word to load
    psum,           \* popcount: sum of count_ones so far
    pclean          \* history: no word changed since this popcount started

bitmapVars == <<bwords, bret, ppc, ppos, psum, pclean>>

\* Hash set: src/src/hs.rs
VARIABLES
    hsetBuckets,    \* HashSet.buckets: bucket index -> entry <<hash, value>> or null
    hsetSize,       \* HashSet.size
    hsetIn,         \* history: the values inserted and not removed since
    hsetLast,       \* history: the last call, its value, what it returned and
                    \*   whether the value was in hsetIn when it was made
    hsetCalls       \* number of calls made

hsetVars == <<hsetBuckets, hsetSize, hsetIn, hsetLast, hsetCalls>>

\* Hash table: src/src/ht.rs
VARIABLES
    htBuckets,      \* HashTable.buckets: bucket index -> entry address or NULL
    htSize,         \* HashTable.size
    htEntry,        \* heap: entry address -> <<hash, key, value>>
    htFreed,        \* entry addresses whose Box has been dropped
    htNext,         \* next entry address Box::new returns
    htwpc,          \* position of the writer
    htwkey,         \* writer: key of the call in progress
    htwval,         \* writer: value of the insert in progress
    htwptr,         \* writer: the entry pointer loaded from the bucket
    htrpc,          \* position of each reader
    htref           \* reader: the entry whose value get() returned a reference to

htVars == <<htBuckets, htSize, htEntry, htFreed, htNext, htwpc, htwkey, htwval,
            htwptr, htrpc, htref>>

\* Reader-writer lock: src/src/rwlock.rs
VARIABLES
    rwstate,        \* RwLock.state
    rwpc,           \* position of each thread
    rwcall,         \* the call each thread is in: try_read, read, try_write, write
    rwseen,         \* try_read: the state loaded
    rwsince         \* history: the writers that were waiting in write() when
                    \*   the thread's read call started and have not acquired
                    \*   the lock since

rwVars == <<rwstate, rwpc, rwcall, rwseen, rwsince>>

\* Byte lock: src/src/bytelock.rs
VARIABLES
    bl_id,          \* the address of the ByteLock
    bl_writer,      \* ByteLock.writer
    bl_readers,     \* ByteLock.readers: the slots whose byte is 1; the other
                    \*   bytes are 0
    bl_pc,          \* position of each thread; "reading" and "writing" hold a guard
    bl_idx          \* write(): the index of the reader byte the loop is at

blVars == <<bl_id, bl_writer, bl_readers, bl_pc, bl_idx>>

\* Single-writer lock: src/src/swlock.rs
VARIABLES
    sw_readers,     \* SwLock.readers
    sw_held,        \* per reader thread: the read guards it holds
    sw_writing      \* whether the designated writer thread holds the write guard

swVars == <<sw_readers, sw_held, sw_writing>>

\* Robin-hood hash set: src/src/rhs.rs
VARIABLES
    rhsBuckets,     \* the bucket vector: per index an entry <<hash, probe_distance,
                    \*   value>> or the null entry
    rhsSize,        \* RobinHoodSet.size
    rhsRet,         \* the value the last call returned
    rhsIn,          \* history: the values inserted and not removed since
    rhsCalls        \* the number of calls made so far

rhsVars == <<rhsBuckets, rhsSize, rhsRet, rhsIn, rhsCalls>>

\* the variables each component leaves unchanged
nonEpochVars   == <<hpVars, stackVars, hsVars, hfVars, fifoVars, ringVars, seqVars, ticketVars, pfVars, backoffVars, bitmapVars, hsetVars, htVars, rwVars, blVars, swVars, rhsVars>>
nonHpVars      == <<epochVars, stackVars, hsVars, hfVars, fifoVars, ringVars, seqVars, ticketVars, pfVars, backoffVars, bitmapVars, hsetVars, htVars, rwVars, blVars, swVars, rhsVars>>
nonStackVars   == <<epochVars, hpVars, hsVars, hfVars, fifoVars, ringVars, seqVars, ticketVars, pfVars, backoffVars, bitmapVars, hsetVars, htVars, rwVars, blVars, swVars, rhsVars>>
nonHpStackVars == <<epochVars, stackVars, hfVars, fifoVars, ringVars, seqVars, ticketVars, pfVars, backoffVars, bitmapVars, hsetVars, htVars, rwVars, blVars, swVars, rhsVars>>
nonHpFifoVars  == <<epochVars, stackVars, hsVars, fifoVars, ringVars, seqVars, ticketVars, pfVars, backoffVars, bitmapVars, hsetVars, htVars, rwVars, blVars, swVars, rhsVars>>
nonFifoVars    == <<epochVars, hpVars, stackVars, hsVars, hfVars, ringVars, seqVars, ticketVars, pfVars, backoffVars, bitmapVars, hsetVars, htVars, rwVars, blVars, swVars, rhsVars>>
nonRingVars    == <<epochVars, hpVars, stackVars, hsVars, hfVars, fifoVars, seqVars, ticketVars, pfVars, backoffVars, bitmapVars, hsetVars, htVars, rwVars, blVars, swVars, rhsVars>>
nonSeqVars     == <<epochVars, hpVars, stackVars, hsVars, hfVars, fifoVars, ringVars, ticketVars, pfVars, backoffVars, bitmapVars, hsetVars, htVars, rwVars, blVars, swVars, rhsVars>>
nonTicketVars  == <<epochVars, hpVars, stackVars, hsVars, hfVars, fifoVars, ringVars, seqVars, pfVars, backoffVars, bitmapVars, hsetVars, htVars, rwVars, blVars, swVars, rhsVars>>
nonPfVars      == <<epochVars, hpVars, stackVars, hsVars, hfVars, fifoVars, ringVars, seqVars, ticketVars, backoffVars, bitmapVars, hsetVars, htVars, rwVars, blVars, swVars, rhsVars>>
nonBackoffVars == <<epochVars, hpVars, stackVars, hsVars, hfVars, fifoVars, ringVars, seqVars, ticketVars, pfVars, bitmapVars, hsetVars, htVars, rwVars, blVars, swVars, rhsVars>>
nonBitmapVars  == <<epochVars, hpVars, stackVars, hsVars, hfVars, fifoVars, ringVars, seqVars, ticketVars, pfVars, backoffVars, hsetVars, htVars, rwVars, blVars, swVars, rhsVars>>
nonHsetVars    == <<epochVars, hpVars, stackVars, hsVars, hfVars, fifoVars, ringVars, seqVars, ticketVars, pfVars, backoffVars, bitmapVars, htVars, rwVars, blVars, swVars, rhsVars>>
nonHtVars      == <<epochVars, hpVars, stackVars, hsVars, hfVars, fifoVars, ringVars, seqVars, ticketVars, pfVars, backoffVars, bitmapVars, hsetVars, rwVars, blVars, swVars, rhsVars>>
nonRwVars      == <<epochVars, hpVars, stackVars, hsVars, hfVars, fifoVars, ringVars, seqVars, ticketVars, pfVars, backoffVars, bitmapVars, hsetVars, htVars, blVars, swVars, rhsVars>>
nonBlVars      == <<epochVars, hpVars, stackVars, hsVars, hfVars, fifoVars, ringVars, seqVars, ticketVars, pfVars, backoffVars, bitmapVars, hsetVars, htVars, rwVars, swVars, rhsVars>>
nonSwVars      == <<epochVars, hpVars, stackVars, hsVars, hfVars, fifoVars, ringVars, seqVars, ticketVars, pfVars, backoffVars, bitmapVars, hsetVars, htVars, rwVars, blVars, rhsVars>>
nonRhsVars     == <<epochVars, hpVars, stackVars, hsVars, hfVars, fifoVars, ringVars, seqVars, ticketVars, pfVars, backoffVars, bitmapVars, hsetVars, htVars, rwVars, blVars, swVars>>

vars == <<epochVars, hpVars, stackVars, hsVars, hfVars, fifoVars, ringVars, seqVars, ticketVars, pfVars, backoffVars, bitmapVars, hsetVars, htVars, rwVars, blVars, swVars, rhsVars>>

(***************************************************************************)
(* Epoch-based reclamation: src/src/epoch.rs                               *)
(***************************************************************************)
NumGuards == 2      \* threads; each registers one guard
MaxEpoch  == 2      \* try_advance is not started once GLOBAL_EPOCH reaches this
MaxNest   == 2      \* nesting depth of enter()
MaxPtrs   == 1      \* addresses handed to defer_free
MaxCalls  == 5      \* calls of enter, leave, defer_free, try_reclaim, try_advance

Guards == 1..NumGuards

EPOCH_GRACE == 2
UsizeBits   == 64

RECURSIVE PowMod(_, _, _)
PowMod(b, n, m) == IF n = 0 THEN 1 % m ELSE (b * PowMod(b, n - 1, m)) % m

\* a.wrapping_sub(k) % 3 on usize, without forming 2^64
WrappingSubMod3(a, k) ==
    IF a >= k THEN (a - k) % 3
    ELSE (a + PowMod(2, UsizeBits, 3) + 3 - (k % 3)) % 3

\* the bucket defer_free pushes to at local epoch e
defer_bucket(e) == e % 3

\* the bucket try_reclaim drains at local epoch e
old_epoch(e) == WrappingSubMod3(e, EPOCH_GRACE)

EpochInit ==
    /\ GLOBAL_EPOCH = 0
    /\ erecords = NULL
    /\ enext = [g \in Guards |-> NULL]
    /\ epoch = [g \in Guards |-> 0]
    /\ active = [g \in Guards |-> 0]
    /\ garbage = [g \in Guards |-> [b \in 0..2 |-> {}]]
    /\ epc = [g \in Guards |-> "unreg"]
    /\ eglobal = [g \in Guards |-> 0]
    /\ ecur = [g \in Guards |-> NULL]
    /\ enextptr = 1
    /\ ecalls = 0
    /\ reclaimLog = {}

\* the state after every thread has called Epoch::register, thread 1 first:
\* register pushes at the head of the list
EpochRegistered ==
    /\ GLOBAL_EPOCH = 0
    /\ erecords = NumGuards
    /\ enext = [g \in Guards |-> g - 1]
    /\ epoch = [g \in Guards |-> 0]
    /\ active = [g \in Guards |-> 0]
    /\ garbage = [g \in Guards |-> [b \in 0..2 |-> {}]]
    /\ epc = [g \in Guards |-> "idle"]
    /\ eglobal = [g \in Guards |-> 0]
    /\ ecur = [g \in Guards |-> NULL]
    /\ enextptr = 1
    /\ ecalls = 0
    /\ reclaimLog = {}

\* the state after every thread has registered and thread 1 has called
\* enter() at global epoch 0; the last thread may have called enter() as well
EpochScenario ==
    /\ GLOBAL_EPOCH = 0
    /\ erecords = NumGuards
    /\ enext = [g \in Guards |-> g - 1]
    /\ epoch = [g \in Guards |-> 0]
    /\ \E pinned \in 0..1 :
          active = [g \in Guards |->
                       IF g = 1 THEN 1 ELSE IF g = NumGuards THEN pinned ELSE 0]
    /\ garbage = [g \in Guards |-> [b \in 0..2 |-> {}]]
    /\ epc = [g \in Guards |-> "idle"]
    /\ eglobal = [g \in Guards |-> 0]
    /\ ecur = [g \in Guards |-> NULL]
    /\ enextptr = 1
    /\ ecalls = 0
    /\ reclaimLog = {}

\* Epoch::register: load records, store record.next
register_load(g) ==
    /\ epc[g] = "unreg"
    /\ ecur' = [ecur EXCEPT ![g] = erecords]
    /\ enext' = [enext EXCEPT ![g] = erecords]
    /\ epc' = [epc EXCEPT ![g] = "reg_cas"]
    /\ UNCHANGED <<GLOBAL_EPOCH, erecords, epoch, active, garbage, eglobal,
                   enextptr, ecalls, reclaimLog>>
    /\ UNCHANGED nonEpochVars

\* mutant of register_cas: the record is stored without comparing the head
register_cas_blind(g) ==
    /\ epc[g] = "reg_cas"
    /\ erecords' = g
    /\ epc' = [epc EXCEPT ![g] = "idle"]
    /\ ecur' = [ecur EXCEPT ![g] = NULL]
    /\ UNCHANGED <<GLOBAL_EPOCH, enext, epoch, active, garbage, eglobal,
                   enextptr, ecalls, reclaimLog>>
    /\ UNCHANGED nonEpochVars

\* Epoch::register: compare_exchange_weak(head, record); a weak CAS may fail
\* spuriously; on failure the loop reloads
register_cas(g) ==
    /\ epc[g] = "reg_cas"
    /\ \/ /\ erecords = ecur[g]
          /\ erecords' = g
          /\ epc' = [epc EXCEPT ![g] = "idle"]
          /\ ecur' = [ecur EXCEPT ![g] = NULL]
       \/ /\ epc' = [epc EXCEPT ![g] = "unreg"]
          /\ ecur' = [ecur EXCEPT ![g] = NULL]
          /\ UNCHANGED erecords
    /\ UNCHANGED <<GLOBAL_EPOCH, enext, epoch, active, garbage, eglobal,
                   enextptr, ecalls, reclaimLog>>
    /\ UNCHANGED nonEpochVars

\* Guard::enter: let global = GLOBAL_EPOCH.load()
enter_load(g) ==
    /\ epc[g] = "idle"
    /\ ecalls < MaxCalls
    /\ ecalls' = ecalls + 1
    /\ active[g] < MaxNest
    /\ eglobal' = [eglobal EXCEPT ![g] = GLOBAL_EPOCH]
    /\ epc' = [epc EXCEPT ![g] = "enter_store"]
    /\ UNCHANGED <<GLOBAL_EPOCH, erecords, enext, epoch, active, garbage, ecur,
                   enextptr, reclaimLog>>
    /\ UNCHANGED nonEpochVars

\* Guard::enter: record.epoch.store(global)
enter_store(g) ==
    /\ epc[g] = "enter_store"
    /\ epoch' = [epoch EXCEPT ![g] = eglobal[g]]
    /\ eglobal' = [eglobal EXCEPT ![g] = 0]
    /\ epc' = [epc EXCEPT ![g] = "enter_add"]
    /\ UNCHANGED <<GLOBAL_EPOCH, erecords, enext, active, garbage, ecur,
                   enextptr, ecalls, reclaimLog>>
    /\ UNCHANGED nonEpochVars

\* Guard::enter: record.active.fetch_add(1)
enter_add(g) ==
    /\ epc[g] = "enter_add"
    /\ active' = [active EXCEPT ![g] = @ + 1]
    /\ epc' = [epc EXCEPT ![g] = "idle"]
    /\ UNCHANGED <<GLOBAL_EPOCH, erecords, enext, epoch, garbage, eglobal, ecur,
                   enextptr, ecalls, reclaimLog>>
    /\ UNCHANGED nonEpochVars

\* Guard::leave: record.active.fetch_sub(1); the caller is inside a section
leave(g) ==
    /\ epc[g] = "idle"
    /\ ecalls < MaxCalls
    /\ ecalls' = ecalls + 1
    /\ active[g] > 0
    /\ active' = [active EXCEPT ![g] = @ - 1]
    /\ UNCHANGED <<GLOBAL_EPOCH, erecords, enext, epoch, garbage, epc, eglobal,
                   ecur, enextptr, reclaimLog>>
    /\ UNCHANGED nonEpochVars

\* Guard::defer_free: push ptr to garbage[record.epoch % 3]
defer_free(g) ==
    /\ epc[g] = "idle"
    /\ ecalls < MaxCalls
    /\ ecalls' = ecalls + 1
    /\ enextptr <= MaxPtrs
    /\ garbage' = [garbage EXCEPT ![g][defer_bucket(epoch[g])] =
                       @ \cup {<<enextptr, epoch[g]>>}]
    /\ enextptr' = enextptr + 1
    /\ UNCHANGED <<GLOBAL_EPOCH, erecords, enext, epoch, active, epc, eglobal,
                   ecur, reclaimLog>>
    /\ UNCHANGED nonEpochVars

\* the local epochs of the records that are inside a critical section
PinnedEpochs == {epoch[r] : r \in {x \in Guards : active[x] > 0}}

\* Guard::try_reclaim: drain garbage[(record.epoch - EPOCH_GRACE) % 3], freeing
\* every item of it
try_reclaim(g) ==
    /\ epc[g] = "idle"
    /\ ecalls < MaxCalls
    /\ ecalls' = ecalls + 1
    /\ LET b == old_epoch(epoch[g]) IN
         /\ reclaimLog' = reclaimLog \cup
               {[ptr |-> it[1], e |-> it[2], pinned |-> PinnedEpochs] :
                    it \in garbage[g][b]}
         /\ garbage' = [garbage EXCEPT ![g][b] = {}]
    /\ UNCHANGED <<GLOBAL_EPOCH, erecords, enext, epoch, active, epc, eglobal,
                   ecur, enextptr>>
    /\ UNCHANGED nonEpochVars

\* Epoch::try_advance: let global = GLOBAL_EPOCH.load()
advance_load(g) ==
    /\ epc[g] = "idle"
    /\ ecalls < MaxCalls
    /\ ecalls' = ecalls + 1
    /\ GLOBAL_EPOCH < MaxEpoch
    /\ eglobal' = [eglobal EXCEPT ![g] = GLOBAL_EPOCH]
    /\ epc' = [epc EXCEPT ![g] = "adv_head"]
    /\ UNCHANGED <<GLOBAL_EPOCH, erecords, enext, epoch, active, garbage, ecur,
                   enextptr, reclaimLog>>
    /\ UNCHANGED nonEpochVars

\* Epoch::try_advance: let mut current = self.records.load()
advance_head(g) ==
    /\ epc[g] = "adv_head"
    /\ ecur' = [ecur EXCEPT ![g] = erecords]
    /\ epc' = [epc EXCEPT ![g] = IF erecords = NULL THEN "adv_cas" ELSE "adv_active"]
    /\ UNCHANGED <<GLOBAL_EPOCH, erecords, enext, epoch, active, garbage, eglobal,
                   enextptr, ecalls, reclaimLog>>
    /\ UNCHANGED nonEpochVars

\* Epoch::try_advance: record.active.load() != 0; an inactive record is skipped
advance_active(g) ==
    /\ epc[g] = "adv_active"
    /\ IF active[ecur[g]] # 0
         THEN /\ epc' = [epc EXCEPT ![g] = "adv_epoch"]
              /\ UNCHANGED ecur
         ELSE /\ ecur' = [ecur EXCEPT ![g] = enext[ecur[g]]]
              /\ epc' = [epc EXCEPT ![g] =
                    IF enext[ecur[g]] = NULL THEN "adv_cas" ELSE "adv_active"]
    /\ UNCHANGED <<GLOBAL_EPOCH, erecords, enext, epoch, active, garbage, eglobal,
                   enextptr, ecalls, reclaimLog>>
    /\ UNCHANGED nonEpochVars

\* Epoch::try_advance: record.epoch.load() != global returns false
advance_epoch(g) ==
    /\ epc[g] = "adv_epoch"
    /\ IF epoch[ecur[g]] # eglobal[g]
         THEN /\ epc' = [epc EXCEPT ![g] = "idle"]
              /\ ecur' = [ecur EXCEPT ![g] = NULL]
              /\ eglobal' = [eglobal EXCEPT ![g] = 0]
         ELSE /\ ecur' = [ecur EXCEPT ![g] = enext[ecur[g]]]
              /\ epc' = [epc EXCEPT ![g] =
                    IF enext[ecur[g]] = NULL THEN "adv_cas" ELSE "adv_active"]
              /\ UNCHANGED eglobal
    /\ UNCHANGED <<GLOBAL_EPOCH, erecords, enext, epoch, active, garbage,
                   enextptr, ecalls, reclaimLog>>
    /\ UNCHANGED nonEpochVars

\* Epoch::try_advance: GLOBAL_EPOCH.compare_exchange(global, global + 1)
advance_cas(g) ==
    /\ epc[g] = "adv_cas"
    /\ GLOBAL_EPOCH' = IF GLOBAL_EPOCH = eglobal[g] THEN eglobal[g] + 1
                       ELSE GLOBAL_EPOCH
    /\ epc' = [epc EXCEPT ![g] = "idle"]
    /\ ecur' = [ecur EXCEPT ![g] = NULL]
    /\ eglobal' = [eglobal EXCEPT ![g] = 0]
    /\ UNCHANGED <<erecords, enext, epoch, active, garbage, enextptr, ecalls, reclaimLog>>
    /\ UNCHANGED nonEpochVars

\* thread 1 uses its guard, deferring only inside a critical section; every
\* thread may call try_advance; the other threads neither enter nor leave a
\* critical section
EpochScenarioNext ==
    \/ enter_load(1)
    \/ enter_store(1)
    \/ enter_add(1)
    \/ leave(1)
    \/ active[1] > 0 /\ defer_free(1)
    \/ try_reclaim(1)
    \/ \E g \in Guards :
          \/ advance_load(g)
          \/ advance_head(g)
          \/ advance_active(g)
          \/ advance_epoch(g)
          \/ advance_cas(g)

EpochNext ==
    \E g \in Guards :
        \/ enter_load(g)
        \/ enter_store(g)
        \/ enter_add(g)
        \/ leave(g)
        \/ defer_free(g)
        \/ try_reclaim(g)
        \/ advance_load(g)
        \/ advance_head(g)
        \/ advance_active(g)
        \/ advance_epoch(g)
        \/ advance_cas(g)

(***************************************************************************)
(* Hazard pointers: src/src/hp.rs                                          *)
(***************************************************************************)
NumThreads == 2     \* threads of a hazard-pointer domain; each registers one guard
MaxAddr    == 1     \* addresses
MaxHpCalls == 3     \* calls of protect, clear, clear_all, retire, scan, drop
MaxSlots   == 1     \* hazard slots the callers use

Threads == 1..NumThreads
Addrs   == 1..MaxAddr

HP_PER_THREAD  == 4
SCAN_THRESHOLD == 2 * HP_PER_THREAD

Slots == 0..(HP_PER_THREAD - 1)

\* the slot arguments callers pass: the first MaxSlots slots, and one past the last
CallSlots == (0..(MaxSlots - 1)) \cup {HP_PER_THREAD}

HpInit ==
    /\ hrecords = NULL
    /\ hnext = [g \in Threads |-> NULL]
    /\ hazards = [g \in Threads |-> [k \in Slots |-> NULL]]
    /\ hactive = [g \in Threads |-> 0]
    /\ retire_list = [g \in Threads |-> <<>>]
    /\ hpc = [g \in Threads |-> "unreg"]
    /\ hcur = [g \in Threads |-> NULL]
    /\ hslot = [g \in Threads |-> 0]
    /\ hcollected = [g \in Threads |-> {}]
    /\ freed = {}
    /\ retired = {}
    /\ hcalls = 0
    /\ scanKept = {}
    /\ heldSince = {}
    /\ scanHeld = [g \in Threads |-> {}]

\* the state after every thread has called HazardPointers::register, thread 1
\* first: register pushes at the head of the list, HpRecord::new sets active = 1
HpRegistered ==
    /\ hrecords = NumThreads
    /\ hnext = [g \in Threads |-> g - 1]
    /\ hazards = [g \in Threads |-> [k \in Slots |-> NULL]]
    /\ hactive = [g \in Threads |-> 1]
    /\ retire_list = [g \in Threads |-> <<>>]
    /\ hpc = [g \in Threads |-> "idle"]
    /\ hcur = [g \in Threads |-> NULL]
    /\ hslot = [g \in Threads |-> 0]
    /\ hcollected = [g \in Threads |-> {}]
    /\ freed = {}
    /\ retired = {}
    /\ hcalls = 0
    /\ scanKept = {}
    /\ heldSince = {}
    /\ scanHeld = [g \in Threads |-> {}]

\* the state after every thread has registered, the last thread has called
\* protect(0, 1) and thread 1 has then called retire(1)
HpRetired ==
    /\ hrecords = NumThreads
    /\ hnext = [g \in Threads |-> g - 1]
    /\ hazards = [g \in Threads |->
          [k \in Slots |-> IF g = NumThreads /\ k = 0 THEN 1 ELSE NULL]]
    /\ hactive = [g \in Threads |-> 1]
    /\ retire_list = [g \in Threads |-> IF g = 1 THEN <<1>> ELSE <<>>]
    /\ hpc = [g \in Threads |-> "idle"]
    /\ hcur = [g \in Threads |-> NULL]
    /\ hslot = [g \in Threads |-> 0]
    /\ hcollected = [g \in Threads |-> {}]
    /\ freed = {}
    /\ retired = {1}
    /\ hcalls = 0
    /\ scanKept = {}
    /\ heldSince = {<<NumThreads, 0, 1>>}
    /\ scanHeld = [g \in Threads |-> {}]

\* hazards[slot].store(p) on record g
StoreHazard(g, slot, p) ==
    /\ hazards' = [hazards EXCEPT ![g][slot] = p]
    /\ heldSince' = {c \in heldSince : ~(c[1] = g /\ c[2] = slot /\ c[3] # p)}
    /\ scanHeld' = [s \in Threads |->
          {c \in scanHeld[s] : ~(c[1] = g /\ c[2] = slot /\ c[3] # p)}]

\* HazardPointers::register: HpRecord::new() (active = 1), load records, store
\* record.next
hp_register_load(g) ==
    /\ hpc[g] = "unreg"
    /\ hactive' = [hactive EXCEPT ![g] = 1]
    /\ hcur' = [hcur EXCEPT ![g] = hrecords]
    /\ hnext' = [hnext EXCEPT ![g] = hrecords]
    /\ hpc' = [hpc EXCEPT ![g] = "reg_cas"]
    /\ UNCHANGED <<hrecords, hazards, retire_list, hslot, hcollected, freed,
                   retired, hcalls, heldSince, scanHeld, scanKept>>
    /\ UNCHANGED nonHpVars

\* HazardPointers::register: compare_exchange_weak(head, record), which may fail
\* spuriously; on failure the loop reloads
hp_register_cas(g) ==
    /\ hpc[g] = "reg_cas"
    /\ \/ /\ hrecords = hcur[g]
          /\ hrecords' = g
          /\ hpc' = [hpc EXCEPT ![g] = "idle"]
       \/ /\ hpc' = [hpc EXCEPT ![g] = "unreg"]
          /\ UNCHANGED hrecords
    /\ hcur' = [hcur EXCEPT ![g] = NULL]
    /\ UNCHANGED <<hnext, hazards, hactive, retire_list, hslot, hcollected, freed,
                   retired, hcalls, heldSince, scanHeld, scanKept>>
    /\ UNCHANGED nonHpVars

\* HpGuard::protect(slot, ptr): None for slot >= HP_PER_THREAD, else store ptr
protect(g, slot, p) ==
    /\ hpc[g] = "idle"
    /\ hcalls < MaxHpCalls
    /\ hcalls' = hcalls + 1
    /\ IF slot >= HP_PER_THREAD
         THEN UNCHANGED <<hazards, heldSince, scanHeld>>
         ELSE StoreHazard(g, slot, p)
    /\ UNCHANGED <<hrecords, hnext, hactive, retire_list, hpc, hcur, hslot,
                   hcollected, freed, retired, scanKept>>
    /\ UNCHANGED nonHpVars

\* HpGuard::clear(slot): store null if slot < HP_PER_THREAD
clear(g, slot) ==
    /\ hpc[g] = "idle"
    /\ hcalls < MaxHpCalls
    /\ hcalls' = hcalls + 1
    /\ IF slot < HP_PER_THREAD
         THEN StoreHazard(g, slot, NULL)
         ELSE UNCHANGED <<hazards, heldSince, scanHeld>>
    /\ UNCHANGED <<hrecords, hnext, hactive, retire_list, hpc, hcur, hslot,
                   hcollected, freed, retired, scanKept>>
    /\ UNCHANGED nonHpVars

\* HpGuard::clear_all is called, by the caller or by Drop for HpGuard
clear_all_begin(g, dropping) ==
    /\ hpc[g] = "idle"
    /\ hcalls < MaxHpCalls
    /\ hcalls' = hcalls + 1
    /\ hslot' = [hslot EXCEPT ![g] = 0]
    /\ hpc' = [hpc EXCEPT ![g] = IF dropping THEN "drop_clear" ELSE "clear_all"]
    /\ UNCHANGED <<hrecords, hnext, hazards, hactive, retire_list, hcur,
                   hcollected, freed, retired, heldSince, scanHeld, scanKept>>
    /\ UNCHANGED nonHpVars

\* HpGuard::clear_all: one iteration of `for hp in &record.hazards`
clear_all_store(g) ==
    /\ hpc[g] \in {"clear_all", "drop_clear"}
    /\ StoreHazard(g, hslot[g], NULL)
    /\ IF hslot[g] + 1 < HP_PER_THREAD
         THEN /\ hslot' = [hslot EXCEPT ![g] = @ + 1]
              /\ UNCHANGED hpc
         ELSE /\ hslot' = [hslot EXCEPT ![g] = 0]
              /\ hpc' = [hpc EXCEPT ![g] =
                    IF hpc[g] = "clear_all" THEN "idle" ELSE "drop_active"]
    /\ UNCHANGED <<hrecords, hnext, hactive, retire_list, hcur, hcollected, freed,
                   retired, hcalls, scanKept>>
    /\ UNCHANGED nonHpVars

\* Drop for HpGuard: record.active.store(0); the guard is gone afterwards
drop_active(g) ==
    /\ hpc[g] = "drop_active"
    /\ hactive' = [hactive EXCEPT ![g] = 0]
    /\ heldSince' = {c \in heldSince : c[1] # g}
    /\ scanHeld' = [s \in Threads |-> {c \in scanHeld[s] : c[1] # g}]
    /\ hpc' = [hpc EXCEPT ![g] = "dropped"]
    /\ UNCHANGED <<hrecords, hnext, hazards, retire_list, hcur, hslot, hcollected,
                   freed, retired, hcalls, scanKept>>
    /\ UNCHANGED nonHpVars

\* the slots of active records that hold one of the addresses ps, with the
\* address
ActiveCells(ps) ==
    {<<d[1], d[2], hazards[d[1]][d[2]]>> :
         d \in {e \in Threads \X Slots :
                   hactive[e[1]] # 0 /\ hazards[e[1]][e[2]] \in ps}}

\* the slots of active records that hold p
HoldersOf(p) ==
    {c \in Threads \X Slots \X {p} :
         hactive[c[1]] # 0 /\ hazards[c[1]][c[2]] = p}

\* HpGuard::retire(ptr): push to the retire list; scan when it has reached
\* SCAN_THRESHOLD
retire_push(g, p) ==
    /\ retire_list' = [retire_list EXCEPT ![g] = Append(@, p)]
    /\ retired' = retired \cup {p}
    /\ heldSince' = heldSince \cup HoldersOf(p)
    /\ scanHeld' = [scanHeld EXCEPT ![g] =
          IF Len(retire_list[g]) + 1 >= SCAN_THRESHOLD
            THEN ActiveCells({retire_list[g][i] : i \in 1..Len(retire_list[g])} \cup {p})
            ELSE @]
    /\ hpc' = [hpc EXCEPT ![g] =
          IF Len(retire_list[g]) + 1 >= SCAN_THRESHOLD THEN "scan_head" ELSE "idle"]

retire(g, p) ==
    /\ hpc[g] = "idle"
    /\ p \notin retired
    /\ hcalls < MaxHpCalls
    /\ hcalls' = hcalls + 1
    /\ retire_push(g, p)
    /\ UNCHANGED <<hrecords, hnext, hazards, hactive, hcur, hslot, hcollected,
                   freed, scanKept>>
    /\ UNCHANGED nonHpVars

\* HpGuard::scan is called
scan(g) ==
    /\ hpc[g] = "idle"
    /\ hcalls < MaxHpCalls
    /\ hcalls' = hcalls + 1
    /\ hpc' = [hpc EXCEPT ![g] = "scan_head"]
    /\ scanHeld' = [scanHeld EXCEPT ![g] =
          ActiveCells({retire_list[g][i] : i \in 1..Len(retire_list[g])})]
    /\ UNCHANGED <<hrecords, hnext, hazards, hactive, retire_list, hcur, hslot,
                   hcollected, freed, retired, heldSince, scanKept>>
    /\ UNCHANGED nonHpVars

\* collect_hazards: let mut current = self.records.load()
collect_head(g) ==
    /\ hpc[g] = "scan_head"
    /\ hcur' = [hcur EXCEPT ![g] = hrecords]
    /\ hcollected' = [hcollected EXCEPT ![g] = {}]
    /\ hpc' = [hpc EXCEPT ![g] =
          IF hrecords = NULL THEN "scan_retain" ELSE "scan_active"]
    /\ UNCHANGED <<hrecords, hnext, hazards, hactive, retire_list, hslot, freed,
                   retired, hcalls, heldSince, scanHeld, scanKept>>
    /\ UNCHANGED nonHpVars

\* collect_hazards: record.active.load() != 0; an inactive record is skipped
collect_active(g) ==
    /\ hpc[g] = "scan_active"
    /\ IF hactive[hcur[g]] # 0
         THEN /\ hpc' = [hpc EXCEPT ![g] = "scan_slot"]
              /\ hslot' = [hslot EXCEPT ![g] = 0]
              /\ UNCHANGED hcur
         ELSE /\ hcur' = [hcur EXCEPT ![g] = hnext[hcur[g]]]
              /\ hpc' = [hpc EXCEPT ![g] =
                    IF hnext[hcur[g]] = NULL THEN "scan_retain" ELSE "scan_active"]
              /\ UNCHANGED hslot
    /\ UNCHANGED <<hrecords, hnext, hazards, hactive, retire_list, hcollected,
                   freed, retired, hcalls, heldSince, scanHeld, scanKept>>
    /\ UNCHANGED nonHpVars

\* mutant of collect_push: no hazard is collected
collect_push_none(hz, ptr) == hz

\* collect_hazards: if !ptr.is_null() { hazards.push(ptr) }
collect_push(hz, ptr) == IF ptr # NULL THEN hz \cup {ptr} ELSE hz

\* collect_hazards: hp.load() of one slot, pushed when not null
collect_slot(g) ==
    /\ hpc[g] = "scan_slot"
    /\ hcollected' = [hcollected EXCEPT ![g] =
          collect_push(@, hazards[hcur[g]][hslot[g]])]
    /\ IF hslot[g] + 1 < HP_PER_THREAD
         THEN /\ hslot' = [hslot EXCEPT ![g] = @ + 1]
              /\ UNCHANGED <<hcur, hpc>>
         ELSE /\ hslot' = [hslot EXCEPT ![g] = 0]
              /\ hcur' = [hcur EXCEPT ![g] = hnext[hcur[g]]]
              /\ hpc' = [hpc EXCEPT ![g] =
                    IF hnext[hcur[g]] = NULL THEN "scan_retain" ELSE "scan_active"]
    /\ UNCHANGED <<hrecords, hnext, hazards, hactive, retire_list, freed, retired,
                   hcalls, heldSince, scanHeld, scanKept>>
    /\ UNCHANGED nonHpVars

\* mutant of retain_keep: the keep / free branches exchanged
retain_keep_inverted(hz, ptr) == ptr \notin hz

\* the closure of retire_list.retain: keep the node iff hazards.contains(node.ptr)
retain_keep(hz, ptr) == ptr \in hz

\* HpGuard::scan: retire_list.retain(...), freeing every node that is not kept
scan_retain(g) ==
    /\ hpc[g] = "scan_retain"
    /\ retire_list' = [retire_list EXCEPT ![g] =
          SelectSeq(@, LAMBDA ptr : retain_keep(hcollected[g], ptr))]
    /\ freed' = freed \cup
          {retire_list[g][i] : i \in {j \in 1..Len(retire_list[g]) :
                                   ~retain_keep(hcollected[g], retire_list[g][j])}}
    /\ scanKept' = scanKept \cup
          {retire_list[g][i] : i \in {j \in 1..Len(retire_list[g]) :
                                   retain_keep(hcollected[g], retire_list[g][j])}}
    /\ hcollected' = [hcollected EXCEPT ![g] = {}]
    /\ hcur' = [hcur EXCEPT ![g] = NULL]
    /\ hpc' = [hpc EXCEPT ![g] = "idle"]
    /\ scanHeld' = [scanHeld EXCEPT ![g] = {}]
    /\ UNCHANGED <<hrecords, hnext, hazards, hactive, hslot, retired, hcalls,
                   heldSince>>
    /\ UNCHANGED nonHpVars

\* the steps of thread g
HpStep(g) ==
    \/ \E slot \in CallSlots, p \in Addrs : protect(g, slot, p)
    \/ \E slot \in CallSlots : clear(g, slot)
    \/ \E dropping \in BOOLEAN : clear_all_begin(g, dropping)
    \/ clear_all_store(g)
    \/ drop_active(g)
    \/ \E p \in Addrs : retire(g, p)
    \/ scan(g)
    \/ collect_head(g)
    \/ collect_active(g)
    \/ collect_slot(g)
    \/ scan_retain(g)

HpNext ==
    \E g \in Threads :
        \/ \E slot \in CallSlots, p \in Addrs : protect(g, slot, p)
        \/ \E slot \in CallSlots : clear(g, slot)
        \/ \E dropping \in BOOLEAN : clear_all_begin(g, dropping)
        \/ clear_all_store(g)
        \/ drop_active(g)
        \/ \E p \in Addrs : retire(g, p)
        \/ scan(g)
        \/ collect_head(g)
        \/ collect_active(g)
        \/ collect_slot(g)
        \/ scan_retain(g)

\* the calls that follow the one retire of an address: scans, and the calls
\* that set and clear hazard slots
HpScanNext ==
    \E g \in Threads :
        \/ \E slot \in CallSlots, p \in Addrs : protect(g, slot, p)
        \/ \E slot \in CallSlots : clear(g, slot)
        \/ \E dropping \in BOOLEAN : clear_all_begin(g, dropping)
        \/ clear_all_store(g)
        \/ drop_active(g)
        \/ scan(g)
        \/ collect_head(g)
        \/ collect_active(g)
        \/ collect_slot(g)
        \/ scan_retain(g)

(***************************************************************************)
(* Treiber stack: src/src/stack.rs                                         *)
(***************************************************************************)
NumStackThreads == 2    \* threads calling push and pop
MaxEntries      == 3    \* stack entries
MaxStackCalls   == 6    \* calls of push and pop
MaxPopAll       == 1    \* calls of pop_all that find the stack non-empty
MaxPopAllCalls  == 5    \* calls started where pop_all is among the operations

StackThreads == 1..NumStackThreads
Entries      == 1..MaxEntries

\* mutant of cas_ok: the exchange is made whatever the location holds
cas_blind(current, expected) == TRUE

\* compare_exchange / compare_exchange_weak: the comparison that lets the
\* exchange happen
cas_ok(current, expected) == current = expected

StackInit ==
    /\ shead = NULL
    /\ snext = [e \in Entries |-> NULL]
    /\ spc = [t \in StackThreads |-> "idle"]
    /\ sentry = [t \in StackThreads |-> NULL]
    /\ slhead = [t \in StackThreads |-> NULL]
    /\ slnext = [t \in StackThreads |-> NULL]
    /\ sret = [t \in StackThreads |-> NULL]
    /\ scalls = 0
    /\ sgiven = {}
    /\ smodel = <<>>
    /\ spopcount = [e \in Entries |-> 0]
    /\ sexpect = [t \in StackThreads |-> NULL]
    /\ sall = <<>>

\* the entries following the next fields nx from p, up to NULL or to n entries
RECURSIVE ChainFrom(_, _, _)
ChainFrom(nx, p, n) ==
    IF p = NULL \/ n = 0 THEN <<>> ELSE <<p>> \o ChainFrom(nx, nx[p], n - 1)

\* following the next fields nx from p ends at NULL within n entries
RECURSIVE EndsAtNull(_, _, _)
EndsAtNull(nx, p, n) ==
    IF p = NULL THEN TRUE ELSE IF n = 0 THEN FALSE ELSE EndsAtNull(nx, nx[p], n - 1)

\* Stack::push(entry): head.load(), entry.next.store(head); on a call and on
\* every retry of the loop
push_load(t, e) ==
    /\ \/ /\ spc[t] = "idle"
          /\ e \in Entries
          /\ scalls < MaxStackCalls
          /\ scalls' = scalls + 1
          /\ sgiven' = sgiven \cup {e}
       \/ /\ spc[t] = "push_retry"
          /\ e = sentry[t]
          /\ UNCHANGED <<scalls, sgiven>>
    /\ sentry' = [sentry EXCEPT ![t] = e]
    /\ slhead' = [slhead EXCEPT ![t] = shead]
    /\ snext' = [snext EXCEPT ![e] = shead]
    /\ spc' = [spc EXCEPT ![t] = "push_cas"]
    /\ UNCHANGED <<shead, slnext, sret, smodel, spopcount, sexpect>>
    /\ UNCHANGED sall
    /\ UNCHANGED nonStackVars

\* Stack::push: head.compare_exchange_weak(head, entry), which may fail
\* spuriously; on failure stall and retry
push_cas(t) ==
    /\ spc[t] = "push_cas"
    /\ \/ /\ cas_ok(shead, slhead[t])
          /\ shead' = sentry[t]
          /\ smodel' = <<sentry[t]>> \o smodel
          /\ spc' = [spc EXCEPT ![t] = "idle"]
          /\ sentry' = [sentry EXCEPT ![t] = NULL]
       \/ /\ spc' = [spc EXCEPT ![t] = "push_retry"]
          /\ UNCHANGED <<shead, smodel, sentry>>
    /\ slhead' = [slhead EXCEPT ![t] = NULL]
    /\ UNCHANGED <<snext, slnext, sret, scalls, sgiven, spopcount, sexpect>>
    /\ UNCHANGED sall
    /\ UNCHANGED nonStackVars

\* Stack::pop: head.load(), None when null; on a call and on every retry
pop_load(t) ==
    /\ \/ /\ spc[t] = "idle"
          /\ scalls < MaxStackCalls
          /\ scalls' = scalls + 1
       \/ /\ spc[t] = "pop_retry"
          /\ UNCHANGED scalls
    /\ IF shead = NULL
         THEN /\ spc' = [spc EXCEPT ![t] = "idle"]
              /\ sret' = [sret EXCEPT ![t] = NULL]
              /\ sexpect' = [sexpect EXCEPT ![t] =
                    IF smodel = <<>> THEN NULL ELSE Head(smodel)]
              /\ UNCHANGED slhead
         ELSE /\ spc' = [spc EXCEPT ![t] = "pop_next"]
              /\ slhead' = [slhead EXCEPT ![t] = shead]
              /\ UNCHANGED <<sret, sexpect>>
    /\ UNCHANGED <<shead, snext, sentry, slnext, sgiven, smodel, spopcount>>
    /\ UNCHANGED sall
    /\ UNCHANGED nonStackVars

\* mutant of pop_next: the rest of the chain is forgotten
pop_next_null(t) ==
    /\ spc[t] = "pop_next"
    /\ slnext' = [slnext EXCEPT ![t] = NULL]
    /\ spc' = [spc EXCEPT ![t] = "pop_cas"]
    /\ UNCHANGED <<shead, snext, sentry, slhead, sret, scalls, sgiven, smodel,
                   spopcount, sexpect>>
    /\ UNCHANGED sall
    /\ UNCHANGED nonStackVars

\* Stack::pop: (*head).next.load()
pop_next(t) ==
    /\ spc[t] = "pop_next"
    /\ slnext' = [slnext EXCEPT ![t] = snext[slhead[t]]]
    /\ spc' = [spc EXCEPT ![t] = "pop_cas"]
    /\ UNCHANGED <<shead, snext, sentry, slhead, sret, scalls, sgiven, smodel,
                   spopcount, sexpect>>
    /\ UNCHANGED sall
    /\ UNCHANGED nonStackVars

\* Stack::pop: head.compare_exchange_weak(head, next), which may fail
\* spuriously; Some(head) on success, else stall and retry
pop_cas(t) ==
    /\ spc[t] = "pop_cas"
    /\ \/ /\ cas_ok(shead, slhead[t])
          /\ shead' = slnext[t]
          /\ sret' = [sret EXCEPT ![t] = slhead[t]]
          /\ sexpect' = [sexpect EXCEPT ![t] =
                IF smodel = <<>> THEN NULL ELSE Head(smodel)]
          /\ smodel' = SelectSeq(smodel, LAMBDA x : x # slhead[t])
          /\ spopcount' = [spopcount EXCEPT ![slhead[t]] = @ + 1]
          /\ spc' = [spc EXCEPT ![t] = "idle"]
       \/ /\ spc' = [spc EXCEPT ![t] = "pop_retry"]
          /\ UNCHANGED <<shead, sret, sexpect, smodel, spopcount>>
    /\ slhead' = [slhead EXCEPT ![t] = NULL]
    /\ slnext' = [slnext EXCEPT ![t] = NULL]
    /\ UNCHANGED <<snext, sentry, scalls, sgiven>>
    /\ UNCHANGED sall
    /\ UNCHANGED nonStackVars

\* mutant of pop_all: only the first entry is detached
pop_all_one(t) ==
    /\ spc[t] = "idle"
    /\ scalls < MaxPopAllCalls
    /\ scalls' = scalls + 1
    /\ Len(sall) < MaxPopAll
    /\ shead' = IF shead = NULL THEN NULL ELSE snext[shead]
    /\ smodel' = <<>>
    /\ sall' = IF shead = NULL THEN sall ELSE Append(sall, <<shead, smodel>>)
    /\ UNCHANGED <<snext, spc, sentry, slhead, slnext, sret, sgiven, spopcount,
                   sexpect>>
    /\ UNCHANGED nonStackVars

\* Stack::pop_all: head.swap(null); None when the old head is null, else
\* Some(head)
pop_all(t) ==
    /\ spc[t] = "idle"
    /\ scalls < MaxPopAllCalls
    /\ scalls' = scalls + 1
    /\ Len(sall) < MaxPopAll
    /\ shead' = NULL
    /\ smodel' = <<>>
    /\ sall' = IF shead = NULL THEN sall ELSE Append(sall, <<shead, smodel>>)
    /\ UNCHANGED <<snext, spc, sentry, slhead, slnext, sret, sgiven, spopcount,
                   sexpect>>
    /\ UNCHANGED nonStackVars

\* several threads; every entry is pushed once
StackNext ==
    \E t \in StackThreads :
        \/ \E e \in Entries \ sgiven : push_load(t, e)
        \/ push_load(t, sentry[t])
        \/ push_cas(t)
        \/ pop_load(t)
        \/ pop_next(t)
        \/ pop_cas(t)

\* thread t is inside a call, or a further call may start
PopAllRoom(t) == spc[t] = "idle" => scalls < MaxPopAllCalls

\* several threads pushing, popping and detaching the whole stack; every
\* entry is pushed once
StackPopAllNext ==
    \E t \in StackThreads :
        \/ \E e \in Entries \ sgiven : PopAllRoom(t) /\ push_load(t, e)
        \/ push_load(t, sentry[t])
        \/ push_cas(t)
        \/ PopAllRoom(t) /\ pop_load(t)
        \/ pop_next(t)
        \/ pop_cas(t)
        \/ pop_all(t)

\* one thread; it may push again an entry that a pop has returned to it
StackSeqNext ==
    \/ \E e \in {x \in Entries : \A i \in 1..Len(smodel) : smodel[i] # x} :
          push_load(1, e)
    \/ push_load(1, sentry[1])
    \/ push_cas(1)
    \/ pop_load(1)
    \/ pop_next(1)
    \/ pop_cas(1)


(***************************************************************************)
(* HP-protected stack: src/src/hp_stack.rs                                 *)
(***************************************************************************)
MaxHsEntries == 2   \* addresses an entry of the HP-protected stack can have
MaxHsCalls   == 5   \* calls of push, pop and retire

HsEntries == 1..MaxHsEntries

\* the addresses of the entries thread g has retired before: one less than
\* SCAN_THRESHOLD of them, none in the stack or in a hazard slot any more
SpentOf(g) ==
    [k \in 1..(SCAN_THRESHOLD - 1) |->
        0 - ((g - 1) * (SCAN_THRESHOLD - 1) + k)]

\* every thread has registered a guard and has pushed, popped and retired
\* SCAN_THRESHOLD - 1 entries, so that its next retire scans; the stack is
\* empty
HpPrimed ==
    /\ hrecords = NumThreads
    /\ hnext = [g \in Threads |-> g - 1]
    /\ hazards = [g \in Threads |-> [k \in Slots |-> NULL]]
    /\ hactive = [g \in Threads |-> 1]
    /\ retire_list = [g \in Threads |-> SpentOf(g)]
    /\ hpc = [g \in Threads |-> "idle"]
    /\ hcur = [g \in Threads |-> NULL]
    /\ hslot = [g \in Threads |-> 0]
    /\ hcollected = [g \in Threads |-> {}]
    /\ freed = {}
    /\ retired = UNION {{SpentOf(g)[k] : k \in 1..(SCAN_THRESHOLD - 1)} : g \in Threads}
    /\ hcalls = 0
    /\ scanKept = {}
    /\ heldSince = {}
    /\ scanHeld = [g \in Threads |-> {}]

\* HpStack::new: an empty stack
HsInit ==
    /\ hshead = NULL
    /\ hsnext = [e \in HsEntries |-> NULL]
    /\ hsentry = [g \in Threads |-> NULL]
    /\ hslhead = [g \in Threads |-> NULL]
    /\ hslnext = [g \in Threads |-> NULL]
    /\ hsused = {}
    /\ hsmodel = <<>>

\* the addresses a new entry can have: never used, or freed by a scan
HsFree == {e \in HsEntries : e \notin hsused \/ e \in freed}

\* HpStackGuard::push(entry): head.load(), entry.next.store(head); on a call
\* (the entry newly allocated) and on every retry of the loop
hs_push_load(g, e) ==
    /\ \/ /\ hpc[g] = "idle"
          /\ e \in HsFree
          /\ hcalls < MaxHsCalls
          /\ hcalls' = hcalls + 1
          /\ hsused' = hsused \cup {e}
          /\ freed' = freed \ {e}
          /\ retired' = retired \ {e}
       \/ /\ hpc[g] = "hs_push_retry"
          /\ e = hsentry[g]
          /\ UNCHANGED <<hcalls, hsused, freed, retired>>
    /\ hsentry' = [hsentry EXCEPT ![g] = e]
    /\ hslhead' = [hslhead EXCEPT ![g] = hshead]
    /\ hsnext' = [hsnext EXCEPT ![e] = hshead]
    /\ hpc' = [hpc EXCEPT ![g] = "hs_push_cas"]
    /\ UNCHANGED <<hrecords, hnext, hazards, hactive, retire_list, hcur, hslot,
                   hcollected, scanKept, heldSince, scanHeld>>
    /\ UNCHANGED <<hshead, hslnext, hsmodel>>
    /\ UNCHANGED nonHpStackVars

\* HpStackGuard::push: head.compare_exchange_weak(head, entry), which may fail
\* spuriously; on failure stall and retry
hs_push_cas(g) ==
    /\ hpc[g] = "hs_push_cas"
    /\ \/ /\ cas_ok(hshead, hslhead[g])
          /\ hshead' = hsentry[g]
          /\ hsmodel' = <<hsentry[g]>> \o hsmodel
          /\ hpc' = [hpc EXCEPT ![g] = "idle"]
          /\ hsentry' = [hsentry EXCEPT ![g] = NULL]
       \/ /\ hpc' = [hpc EXCEPT ![g] = "hs_push_retry"]
          /\ UNCHANGED <<hshead, hsmodel, hsentry>>
    /\ hslhead' = [hslhead EXCEPT ![g] = NULL]
    /\ UNCHANGED <<hrecords, hnext, hazards, hactive, retire_list, hcur, hslot,
                   hcollected, freed, retired, hcalls, scanKept, heldSince, scanHeld>>
    /\ UNCHANGED <<hsnext, hslnext, hsused>>
    /\ UNCHANGED nonHpStackVars

\* HpStackGuard::pop: head.load(), None when null; on a call and on every
\* iteration of the loop
hs_pop_load(g) ==
    /\ \/ /\ hpc[g] = "idle"
          /\ hcalls < MaxHsCalls
          /\ hcalls' = hcalls + 1
       \/ /\ hpc[g] = "hs_pop_retry"
          /\ UNCHANGED hcalls
    /\ hslhead' = [hslhead EXCEPT ![g] = hshead]
    /\ hpc' = [hpc EXCEPT ![g] = IF hshead = NULL THEN "idle" ELSE "hs_pop_protect"]
    /\ UNCHANGED <<hrecords, hnext, hazards, hactive, retire_list, hcur, hslot,
                   hcollected, freed, retired, scanKept, heldSince, scanHeld>>
    /\ UNCHANGED <<hshead, hsnext, hsentry, hslnext, hsused, hsmodel>>
    /\ UNCHANGED nonHpStackVars

\* HpStackGuard::pop: hp_guard.protect(0, head)
hs_pop_protect(g) ==
    /\ hpc[g] = "hs_pop_protect"
    /\ StoreHazard(g, 0, hslhead[g])
    /\ hpc' = [hpc EXCEPT ![g] = "hs_pop_verify"]
    /\ UNCHANGED <<hrecords, hnext, hactive, retire_list, hcur, hslot, hcollected,
                   freed, retired, hcalls, scanKept>>
    /\ UNCHANGED hsVars
    /\ UNCHANGED nonHpStackVars

\* mutant of hs_pop_verify: head is not loaded again
hs_pop_verify_skip(g) ==
    /\ hpc[g] = "hs_pop_verify"
    /\ hpc' = [hpc EXCEPT ![g] = "hs_pop_next"]
    /\ UNCHANGED <<hrecords, hnext, hazards, hactive, retire_list, hcur, hslot,
                   hcollected, freed, retired, hcalls, scanKept, heldSince, scanHeld>>
    /\ UNCHANGED hsVars
    /\ UNCHANGED nonHpStackVars

\* HpStackGuard::pop: if head.load() != head { continue }
hs_pop_verify(g) ==
    /\ hpc[g] = "hs_pop_verify"
    /\ hpc' = [hpc EXCEPT ![g] =
          IF hshead # hslhead[g] THEN "hs_pop_retry" ELSE "hs_pop_next"]
    /\ UNCHANGED <<hrecords, hnext, hazards, hactive, retire_list, hcur, hslot,
                   hcollected, freed, retired, hcalls, scanKept, heldSince, scanHeld>>
    /\ UNCHANGED hsVars
    /\ UNCHANGED nonHpStackVars

\* HpStackGuard::pop: (*head).next.load()
hs_pop_next(g) ==
    /\ hpc[g] = "hs_pop_next"
    /\ hslnext' = [hslnext EXCEPT ![g] = hsnext[hslhead[g]]]
    /\ hpc' = [hpc EXCEPT ![g] = "hs_pop_cas"]
    /\ UNCHANGED <<hrecords, hnext, hazards, hactive, retire_list, hcur, hslot,
                   hcollected, freed, retired, hcalls, scanKept, heldSince, scanHeld>>
    /\ UNCHANGED <<hshead, hsnext, hsentry, hslhead, hsused, hsmodel>>
    /\ UNCHANGED nonHpStackVars

\* HpStackGuard::pop: head.compare_exchange_weak(head, next), which may fail
\* spuriously; on failure stall and retry
hs_pop_cas(g) ==
    /\ hpc[g] = "hs_pop_cas"
    /\ \/ /\ cas_ok(hshead, hslhead[g])
          /\ hshead' = hslnext[g]
          /\ hsmodel' = SelectSeq(hsmodel, LAMBDA x : x # hslhead[g])
          /\ hpc' = [hpc EXCEPT ![g] = "hs_pop_clear"]
       \/ /\ hpc' = [hpc EXCEPT ![g] = "hs_pop_retry"]
          /\ UNCHANGED <<hshead, hsmodel>>
    /\ hslnext' = [hslnext EXCEPT ![g] = NULL]
    /\ UNCHANGED <<hrecords, hnext, hazards, hactive, retire_list, hcur, hslot,
                   hcollected, freed, retired, hcalls, scanKept, heldSince, scanHeld>>
    /\ UNCHANGED <<hsnext, hsentry, hslhead, hsused>>
    /\ UNCHANGED nonHpStackVars

\* HpStackGuard::pop: hp_guard.clear(0); return Some(head)
hs_pop_clear(g) ==
    /\ hpc[g] = "hs_pop_clear"
    /\ StoreHazard(g, 0, NULL)
    /\ hpc' = [hpc EXCEPT ![g] = "hs_popped"]
    /\ UNCHANGED <<hrecords, hnext, hactive, retire_list, hcur, hslot, hcollected,
                   freed, retired, hcalls, scanKept>>
    /\ UNCHANGED hsVars
    /\ UNCHANGED nonHpStackVars

\* HpStackGuard::retire(entry), of the entry the thread's pop returned
hs_retire(g) ==
    /\ hpc[g] = "hs_popped"
    /\ hcalls < MaxHsCalls
    /\ hcalls' = hcalls + 1
    /\ retire_push(g, hslhead[g])
    /\ hslhead' = [hslhead EXCEPT ![g] = NULL]
    /\ UNCHANGED <<hrecords, hnext, hazards, hactive, hcur, hslot, hcollected,
                   freed, scanKept>>
    /\ UNCHANGED <<hshead, hsnext, hsentry, hslnext, hsused, hsmodel>>
    /\ UNCHANGED nonHpStackVars

HpStackNext ==
    \E g \in Threads :
        \/ \E e \in HsEntries : hs_push_load(g, e)
        \/ hs_push_cas(g)
        \/ hs_pop_load(g)
        \/ hs_pop_protect(g)
        \/ hs_pop_verify(g)
        \/ hs_pop_next(g)
        \/ hs_pop_cas(g)
        \/ hs_pop_clear(g)
        \/ hs_retire(g)
        \/ collect_head(g)
        \/ collect_active(g)
        \/ collect_slot(g)
        \/ scan_retain(g)


(***************************************************************************)
(* HP-protected FIFO: src/src/hp_fifo.rs                                   *)
(***************************************************************************)
MaxHfEntries == 3   \* entries of the HP-protected FIFO
MaxHfCalls   == 4   \* calls of enqueue, dequeue and retire

HfEntries == 1..MaxHfEntries

\* HpFifo::new: an empty queue
HfInit ==
    /\ hfhead = NULL
    /\ hftail = NULL
    /\ hfnext = [e \in HfEntries |-> NULL]
    /\ hfentry = [g \in Threads |-> NULL]
    /\ hfl = [g \in Threads |-> NULL]
    /\ hflnext = [g \in Threads |-> NULL]
    /\ hfheld = [g \in Threads |-> {}]
    /\ hfby = [g \in Threads |-> <<>>]
    /\ hfdeq = <<>>

\* the entries that were handed to enqueue
HfEnqueued == UNION {{hfby[g][i] : i \in 1..Len(hfby[g])} : g \in Threads}

\* the entries reached from e by following next, at most n of them, in order
RECURSIVE HfChain(_, _)
HfChain(e, n) ==
    IF e = NULL \/ n = 0 THEN <<>> ELSE <<e>> \o HfChain(hfnext[e], n - 1)

\* the entries enqueued and not returned by a dequeue
HfPending == HfEnqueued \ {hfdeq[m] : m \in 1..Len(hfdeq)}

\* what a load of (*e).next can return: the field, or anything once e is freed
HfNextOf(e) == IF e \in freed THEN HfEntries \cup {NULL} ELSE {hfnext[e]}

\* HpFifoGuard::enqueue(entry): entry.next.store(null) on a call; tail.load()
\* on a call and on every iteration of the loop
hf_enq_load(g, e) ==
    /\ \/ /\ hpc[g] = "idle"
          /\ e \in HfEntries \ HfEnqueued
          /\ hcalls < MaxHfCalls
          /\ hcalls' = hcalls + 1
          /\ hfnext' = [hfnext EXCEPT ![e] = NULL]
          /\ hfby' = [hfby EXCEPT ![g] = Append(@, e)]
       \/ /\ hpc[g] = "hf_enq_retry"
          /\ e = hfentry[g]
          /\ UNCHANGED <<hcalls, hfnext, hfby>>
    /\ hfentry' = [hfentry EXCEPT ![g] = e]
    /\ hfl' = [hfl EXCEPT ![g] = hftail]
    /\ hpc' = [hpc EXCEPT ![g] =
          IF hftail = NULL THEN "hf_enq_head" ELSE "hf_enq_protect"]
    /\ UNCHANGED <<hrecords, hnext, hazards, hactive, retire_list, hcur, hslot,
                   hcollected, freed, retired, scanKept, heldSince, scanHeld>>
    /\ UNCHANGED <<hfhead, hftail, hflnext, hfheld, hfdeq>>
    /\ UNCHANGED nonHpFifoVars

\* enqueue, tail was null: head.compare_exchange(null, entry); on failure stall
\* and loop
hf_enq_head(g) ==
    /\ hpc[g] = "hf_enq_head"
    /\ IF cas_ok(hfhead, NULL)
         THEN /\ hfhead' = hfentry[g]
              /\ hpc' = [hpc EXCEPT ![g] = "hf_enq_tail"]
         ELSE /\ hpc' = [hpc EXCEPT ![g] = "hf_enq_retry"]
              /\ UNCHANGED hfhead
    /\ UNCHANGED <<hrecords, hnext, hazards, hactive, retire_list, hcur, hslot,
                   hcollected, freed, retired, hcalls, scanKept, heldSince, scanHeld>>
    /\ UNCHANGED <<hftail, hfnext, hfentry, hfl, hflnext, hfheld, hfby, hfdeq>>
    /\ UNCHANGED nonHpFifoVars

\* enqueue, after the CAS of head: tail.store(entry); return
hf_enq_tail(g) ==
    /\ hpc[g] = "hf_enq_tail"
    /\ hftail' = hfentry[g]
    /\ hfentry' = [hfentry EXCEPT ![g] = NULL]
    /\ hpc' = [hpc EXCEPT ![g] = "idle"]
    /\ UNCHANGED <<hrecords, hnext, hazards, hactive, retire_list, hcur, hslot,
                   hcollected, freed, retired, hcalls, scanKept, heldSince, scanHeld>>
    /\ UNCHANGED <<hfhead, hfnext, hfl, hflnext, hfheld, hfby, hfdeq>>
    /\ UNCHANGED nonHpFifoVars

\* enqueue: protect(0, tail); dequeue: protect(0, head)
hf_protect(g) ==
    /\ hpc[g] \in {"hf_enq_protect", "hf_deq_protect"}
    /\ StoreHazard(g, 0, hfl[g])
    /\ hpc' = [hpc EXCEPT ![g] =
          IF hpc[g] = "hf_enq_protect" THEN "hf_enq_verify" ELSE "hf_deq_verify"]
    /\ UNCHANGED <<hrecords, hnext, hactive, retire_list, hcur, hslot, hcollected,
                   freed, retired, hcalls, scanKept>>
    /\ UNCHANGED hfVars
    /\ UNCHANGED nonHpFifoVars

\* enqueue: if tail.load() != tail { continue }; let next = (*tail).next.load()
hf_enq_verify(g) ==
    /\ hpc[g] = "hf_enq_verify"
    /\ hpc' = [hpc EXCEPT ![g] =
          IF hftail # hfl[g] THEN "hf_enq_retry" ELSE "hf_enq_next"]
    /\ UNCHANGED <<hrecords, hnext, hazards, hactive, retire_list, hcur, hslot,
                   hcollected, freed, retired, hcalls, scanKept, heldSince, scanHeld>>
    /\ UNCHANGED hfVars
    /\ UNCHANGED nonHpFifoVars

\* enqueue: let next = (*tail).next.load()
hf_enq_next(g) ==
    /\ hpc[g] = "hf_enq_next"
    /\ \E v \in HfNextOf(hfl[g]) :
          /\ hflnext' = [hflnext EXCEPT ![g] = v]
          /\ hpc' = [hpc EXCEPT ![g] = IF v = NULL THEN "hf_enq_link" ELSE "hf_enq_help"]
    /\ UNCHANGED <<hrecords, hnext, hazards, hactive, retire_list, hcur, hslot,
                   hcollected, freed, retired, hcalls, scanKept, heldSince, scanHeld>>
    /\ UNCHANGED <<hfhead, hftail, hfnext, hfentry, hfl, hfheld, hfby, hfdeq>>
    /\ UNCHANGED nonHpFifoVars

\* enqueue: (*tail).next.compare_exchange(null, entry); on failure stall and loop
hf_enq_link(g) ==
    /\ hpc[g] = "hf_enq_link"
    /\ \E v \in HfNextOf(hfl[g]) :
          IF cas_ok(v, NULL)
            THEN /\ hfnext' = [hfnext EXCEPT ![hfl[g]] = hfentry[g]]
                 /\ hflnext' = [hflnext EXCEPT ![g] = hfentry[g]]
                 /\ hpc' = [hpc EXCEPT ![g] = "hf_enq_swing"]
            ELSE /\ hpc' = [hpc EXCEPT ![g] = "hf_enq_retry"]
                 /\ UNCHANGED <<hfnext, hflnext>>
    /\ UNCHANGED <<hrecords, hnext, hazards, hactive, retire_list, hcur, hslot,
                   hcollected, freed, retired, hcalls, scanKept, heldSince, scanHeld>>
    /\ UNCHANGED <<hfhead, hftail, hfentry, hfl, hfheld, hfby, hfdeq>>
    /\ UNCHANGED nonHpFifoVars

\* enqueue: tail.compare_exchange(tail, entry) after linking, then return; or
\* tail.compare_exchange(tail, next) to help, then stall and loop; the result
\* is ignored
hf_enq_swing(g) ==
    /\ hpc[g] \in {"hf_enq_swing", "hf_enq_help"}
    /\ hftail' = IF cas_ok(hftail, hfl[g]) THEN hflnext[g] ELSE hftail
    /\ hpc' = [hpc EXCEPT ![g] =
          IF hpc[g] = "hf_enq_swing" THEN "idle" ELSE "hf_enq_retry"]
    /\ hfentry' = [hfentry EXCEPT ![g] =
          IF hpc[g] = "hf_enq_swing" THEN NULL ELSE @]
    /\ hflnext' = [hflnext EXCEPT ![g] = NULL]
    /\ UNCHANGED <<hrecords, hnext, hazards, hactive, retire_list, hcur, hslot,
                   hcollected, freed, retired, hcalls, scanKept, heldSince, scanHeld>>
    /\ UNCHANGED <<hfhead, hfnext, hfl, hfheld, hfby, hfdeq>>
    /\ UNCHANGED nonHpFifoVars

\* HpFifoGuard::dequeue: head.load(), None when null; on a call and on every
\* iteration of the loop
hf_deq_load(g) ==
    /\ \/ /\ hpc[g] = "idle"
          /\ hcalls < MaxHfCalls
          /\ hcalls' = hcalls + 1
       \/ /\ hpc[g] = "hf_deq_retry"
          /\ UNCHANGED hcalls
    /\ hfl' = [hfl EXCEPT ![g] = hfhead]
    /\ hpc' = [hpc EXCEPT ![g] = IF hfhead = NULL THEN "idle" ELSE "hf_deq_protect"]
    /\ UNCHANGED <<hrecords, hnext, hazards, hactive, retire_list, hcur, hslot,
                   hcollected, freed, retired, scanKept, heldSince, scanHeld>>
    /\ UNCHANGED <<hfhead, hftail, hfnext, hfentry, hflnext, hfheld, hfby, hfdeq>>
    /\ UNCHANGED nonHpFifoVars

\* dequeue: if head.load() != head { continue }
hf_deq_verify(g) ==
    /\ hpc[g] = "hf_deq_verify"
    /\ hpc' = [hpc EXCEPT ![g] =
          IF hfhead # hfl[g] THEN "hf_deq_retry" ELSE "hf_deq_next"]
    /\ UNCHANGED <<hrecords, hnext, hazards, hactive, retire_list, hcur, hslot,
                   hcollected, freed, retired, hcalls, scanKept, heldSince, scanHeld>>
    /\ UNCHANGED hfVars
    /\ UNCHANGED nonHpFifoVars

\* dequeue: let next = (*head).next.load()
hf_deq_next(g) ==
    /\ hpc[g] = "hf_deq_next"
    /\ \E v \in HfNextOf(hfl[g]) : hflnext' = [hflnext EXCEPT ![g] = v]
    /\ hpc' = [hpc EXCEPT ![g] = "hf_deq_cas"]
    /\ UNCHANGED <<hrecords, hnext, hazards, hactive, retire_list, hcur, hslot,
                   hcollected, freed, retired, hcalls, scanKept, heldSince, scanHeld>>
    /\ UNCHANGED <<hfhead, hftail, hfnext, hfentry, hfl, hfheld, hfby, hfdeq>>
    /\ UNCHANGED nonHpFifoVars

\* dequeue: head.compare_exchange(head, next); on failure stall and loop
hf_deq_cas(g) ==
    /\ hpc[g] = "hf_deq_cas"
    /\ IF cas_ok(hfhead, hfl[g])
         THEN /\ hfhead' = hflnext[g]
              /\ hfdeq' = Append(hfdeq, hfl[g])
              /\ hpc' = [hpc EXCEPT ![g] =
                    IF hflnext[g] = NULL THEN "hf_deq_tail" ELSE "hf_deq_clear"]
         ELSE /\ hpc' = [hpc EXCEPT ![g] = "hf_deq_retry"]
              /\ UNCHANGED <<hfhead, hfdeq>>
    /\ UNCHANGED <<hrecords, hnext, hazards, hactive, retire_list, hcur, hslot,
                   hcollected, freed, retired, hcalls, scanKept, heldSince, scanHeld>>
    /\ UNCHANGED <<hftail, hfnext, hfentry, hfl, hflnext, hfheld, hfby>>
    /\ UNCHANGED nonHpFifoVars

\* dequeue, next was null: tail.compare_exchange(head, null), result ignored
hf_deq_tail(g) ==
    /\ hpc[g] = "hf_deq_tail"
    /\ hftail' = IF cas_ok(hftail, hfl[g]) THEN NULL ELSE hftail
    /\ hpc' = [hpc EXCEPT ![g] = "hf_deq_clear"]
    /\ UNCHANGED <<hrecords, hnext, hazards, hactive, retire_list, hcur, hslot,
                   hcollected, freed, retired, hcalls, scanKept, heldSince, scanHeld>>
    /\ UNCHANGED <<hfhead, hfnext, hfentry, hfl, hflnext, hfheld, hfby, hfdeq>>
    /\ UNCHANGED nonHpFifoVars

\* dequeue: hp_guard.clear(0); return Some(head)
hf_deq_clear(g) ==
    /\ hpc[g] = "hf_deq_clear"
    /\ StoreHazard(g, 0, NULL)
    /\ hfheld' = [hfheld EXCEPT ![g] = @ \cup {hfl[g]}]
    /\ hfl' = [hfl EXCEPT ![g] = NULL]
    /\ hflnext' = [hflnext EXCEPT ![g] = NULL]
    /\ hpc' = [hpc EXCEPT ![g] = "idle"]
    /\ UNCHANGED <<hrecords, hnext, hactive, retire_list, hcur, hslot, hcollected,
                   freed, retired, hcalls, scanKept>>
    /\ UNCHANGED <<hfhead, hftail, hfnext, hfentry, hfby, hfdeq>>
    /\ UNCHANGED nonHpFifoVars

\* hp_guard.retire(entry) of an entry that a dequeue returned to the thread
hf_retire(g, e) ==
    /\ hpc[g] = "idle"
    /\ e \in hfheld[g]
    /\ hcalls < MaxHfCalls
    /\ hcalls' = hcalls + 1
    /\ retire_push(g, e)
    /\ hfheld' = [hfheld EXCEPT ![g] = @ \ {e}]
    /\ UNCHANGED <<hrecords, hnext, hazards, hactive, hcur, hslot, hcollected,
                   freed, scanKept>>
    /\ UNCHANGED <<hfhead, hftail, hfnext, hfentry, hfl, hflnext, hfby, hfdeq>>
    /\ UNCHANGED nonHpFifoVars

\* enqueue and dequeue; the callers keep the dequeued entries
HpFifoNext ==
    \E g \in Threads :
        \/ \E e \in HfEntries : hf_enq_load(g, e)
        \/ hf_enq_head(g)
        \/ hf_enq_tail(g)
        \/ hf_protect(g)
        \/ hf_enq_verify(g)
        \/ hf_enq_next(g)
        \/ hf_enq_link(g)
        \/ hf_enq_swing(g)
        \/ hf_deq_load(g)
        \/ hf_deq_verify(g)
        \/ hf_deq_next(g)
        \/ hf_deq_cas(g)
        \/ hf_deq_tail(g)
        \/ hf_deq_clear(g)

\* enqueue and dequeue; the callers retire the dequeued entries
HpFifoReclaimNext ==
    \E g \in Threads :
        \/ \E e \in HfEntries : hf_enq_load(g, e)
        \/ hf_enq_head(g)
        \/ hf_enq_tail(g)
        \/ hf_protect(g)
        \/ hf_enq_verify(g)
        \/ hf_enq_next(g)
        \/ hf_enq_link(g)
        \/ hf_enq_swing(g)
        \/ hf_deq_load(g)
        \/ hf_deq_verify(g)
        \/ hf_deq_next(g)
        \/ hf_deq_cas(g)
        \/ hf_deq_tail(g)
        \/ hf_deq_clear(g)
        \/ \E e \in HfEntries : hf_retire(g, e)
        \/ collect_head(g)
        \/ collect_active(g)
        \/ collect_slot(g)
        \/ scan_retain(g)


(***************************************************************************)
(* FIFO queues: src/src/fifo.rs                                            *)
(***************************************************************************)
NumFifoThreads == 2     \* threads calling enqueue and dequeue on an MpmcFifo
MaxFifoEntries == 3     \* entries
MaxFifoCalls   == 4     \* calls of enqueue and dequeue

FifoThreads == 1..NumFifoThreads
FifoEntries == 1..MaxFifoEntries

\* the one producer and the one consumer of an SpscFifo
Producer == 1
Consumer == 2

\* SpscFifo::new / MpmcFifo::new: an empty queue, the locks free
FifoInit ==
    /\ fhead = NULL
    /\ ftail = NULL
    /\ fnext = [e \in FifoEntries |-> NULL]
    /\ head_locked = FALSE
    /\ tail_locked = FALSE
    /\ fpc = [t \in FifoThreads |-> "idle"]
    /\ fentry = [t \in FifoThreads |-> NULL]
    /\ fl = [t \in FifoThreads |-> NULL]
    /\ fcalls = 0
    /\ fenq = <<>>
    /\ fdeq = <<>>

\* the entries whose enqueue has returned and that no dequeue has taken
FifoPending ==
    {e \in FifoEntries :
        /\ \E i \in 1..Len(fenq) : fenq[i] = e
        /\ \A t \in FifoThreads : fentry[t] # e
        /\ \A i \in 1..Len(fdeq) : fdeq[i] # e}

\* SpscFifo::enqueue(entry): entry.next.store(null); let tail = tail.load()
spsc_enq_load(e) ==
    /\ fpc[Producer] = "idle"
    /\ e \in FifoEntries
    /\ \A i \in 1..Len(fenq) : fenq[i] # e
    /\ fcalls < MaxFifoCalls
    /\ fcalls' = fcalls + 1
    /\ fnext' = [fnext EXCEPT ![e] = NULL]
    /\ fentry' = [fentry EXCEPT ![Producer] = e]
    /\ fl' = [fl EXCEPT ![Producer] = ftail]
    /\ fenq' = Append(fenq, e)
    /\ fpc' = [fpc EXCEPT ![Producer] = "enq_link"]
    /\ UNCHANGED <<fhead, ftail, head_locked, tail_locked, fdeq>>
    /\ UNCHANGED nonFifoVars

\* SpscFifo::enqueue: head.store(entry) if tail was null, else
\* (*tail).next.store(entry)
spsc_enq_link ==
    /\ fpc[Producer] = "enq_link"
    /\ IF fl[Producer] = NULL
         THEN /\ fhead' = fentry[Producer]
              /\ UNCHANGED fnext
         ELSE /\ fnext' = [fnext EXCEPT ![fl[Producer]] = fentry[Producer]]
              /\ UNCHANGED fhead
    /\ fpc' = [fpc EXCEPT ![Producer] = "enq_tail"]
    /\ UNCHANGED <<ftail, head_locked, tail_locked, fentry, fl, fcalls, fenq, fdeq>>
    /\ UNCHANGED nonFifoVars

\* SpscFifo::enqueue: tail.store(entry); return
spsc_enq_tail ==
    /\ fpc[Producer] = "enq_tail"
    /\ ftail' = fentry[Producer]
    /\ fentry' = [fentry EXCEPT ![Producer] = NULL]
    /\ fl' = [fl EXCEPT ![Producer] = NULL]
    /\ fpc' = [fpc EXCEPT ![Producer] = "idle"]
    /\ UNCHANGED <<fhead, fnext, head_locked, tail_locked, fcalls, fenq, fdeq>>
    /\ UNCHANGED nonFifoVars

\* SpscFifo::dequeue: let head = head.load(); None when null
spsc_deq_load ==
    /\ fpc[Consumer] = "idle"
    /\ fcalls < MaxFifoCalls
    /\ fcalls' = fcalls + 1
    /\ fl' = [fl EXCEPT ![Consumer] = fhead]
    /\ fpc' = [fpc EXCEPT ![Consumer] = IF fhead = NULL THEN "idle" ELSE "deq_next"]
    /\ UNCHANGED <<fhead, ftail, fnext, head_locked, tail_locked, fentry, fenq, fdeq>>
    /\ UNCHANGED nonFifoVars

\* SpscFifo::dequeue: let next = (*head).next.load()
spsc_deq_next ==
    /\ fpc[Consumer] = "deq_next"
    /\ fentry' = [fentry EXCEPT ![Consumer] = fnext[fl[Consumer]]]
    /\ fpc' = [fpc EXCEPT ![Consumer] = "deq_head"]
    /\ UNCHANGED <<fhead, ftail, fnext, head_locked, tail_locked, fl, fcalls, fenq,
                   fdeq>>
    /\ UNCHANGED nonFifoVars

\* SpscFifo::dequeue: head.store(next); Some(head) unless next is null
spsc_deq_head ==
    /\ fpc[Consumer] = "deq_head"
    /\ fhead' = fentry[Consumer]
    /\ fdeq' = Append(fdeq, fl[Consumer])
    /\ fpc' = [fpc EXCEPT ![Consumer] =
          IF fentry[Consumer] = NULL THEN "deq_tail" ELSE "idle"]
    /\ fentry' = [fentry EXCEPT ![Consumer] = NULL]
    /\ fl' = [fl EXCEPT ![Consumer] = NULL]
    /\ UNCHANGED <<ftail, fnext, head_locked, tail_locked, fcalls, fenq>>
    /\ UNCHANGED nonFifoVars

\* SpscFifo::dequeue, next was null: tail.store(null); Some(head)
spsc_deq_tail ==
    /\ fpc[Consumer] = "deq_tail"
    /\ ftail' = NULL
    /\ fpc' = [fpc EXCEPT ![Consumer] = "idle"]
    /\ UNCHANGED <<fhead, fnext, head_locked, tail_locked, fentry, fl, fcalls, fenq,
                   fdeq>>
    /\ UNCHANGED nonFifoVars

SpscFifoNext ==
    \/ \E e \in FifoEntries : spsc_enq_load(e)
    \/ spsc_enq_link
    \/ spsc_enq_tail
    \/ spsc_deq_load
    \/ spsc_deq_next
    \/ spsc_deq_head
    \/ spsc_deq_tail

\* MpmcFifo::enqueue(entry): entry.next.store(null); tail.lock(), which
\* returns once its swap has found the lock free
mpmc_enq_lock(t, e) ==
    /\ fpc[t] = "idle"
    /\ e \in FifoEntries
    /\ \A i \in 1..Len(fenq) : fenq[i] # e
    /\ fcalls < MaxFifoCalls
    /\ ~tail_locked
    /\ tail_locked' = TRUE
    /\ fcalls' = fcalls + 1
    /\ fnext' = [fnext EXCEPT ![e] = NULL]
    /\ fentry' = [fentry EXCEPT ![t] = e]
    /\ fenq' = Append(fenq, e)
    /\ fpc' = [fpc EXCEPT ![t] = "enq_link"]
    /\ UNCHANGED <<fhead, ftail, head_locked, fl, fdeq>>
    /\ UNCHANGED nonFifoVars

\* MpmcFifo::enqueue: if tail is null, head.lock(), *head = entry and the head
\* guard is dropped; else (**tail).next.store(entry)
mpmc_enq_link(t) ==
    /\ fpc[t] = "enq_link"
    /\ IF ftail = NULL
         THEN /\ ~head_locked
              /\ fhead' = fentry[t]
              /\ UNCHANGED fnext
         ELSE /\ fnext' = [fnext EXCEPT ![ftail] = fentry[t]]
              /\ UNCHANGED fhead
    /\ fpc' = [fpc EXCEPT ![t] = "enq_tail"]
    /\ UNCHANGED <<ftail, head_locked, tail_locked, fentry, fl, fcalls, fenq, fdeq>>
    /\ UNCHANGED nonFifoVars

\* mutant of mpmc_enq_tail: the tail guard is not dropped
mpmc_enq_tail_keep(t) ==
    /\ fpc[t] = "enq_tail"
    /\ ftail' = fentry[t]
    /\ fentry' = [fentry EXCEPT ![t] = NULL]
    /\ fpc' = [fpc EXCEPT ![t] = "idle"]
    /\ UNCHANGED <<fhead, fnext, head_locked, tail_locked, fl, fcalls, fenq, fdeq>>
    /\ UNCHANGED nonFifoVars

\* MpmcFifo::enqueue: *tail = entry; the tail guard is dropped on return
mpmc_enq_tail(t) ==
    /\ fpc[t] = "enq_tail"
    /\ ftail' = fentry[t]
    /\ tail_locked' = FALSE
    /\ fentry' = [fentry EXCEPT ![t] = NULL]
    /\ fpc' = [fpc EXCEPT ![t] = "idle"]
    /\ UNCHANGED <<fhead, fnext, head_locked, fl, fcalls, fenq, fdeq>>
    /\ UNCHANGED nonFifoVars

\* MpmcFifo::dequeue: head.lock(); let head_ptr = *head; None, dropping the
\* guard, when it is null
mpmc_deq_lock(t) ==
    /\ fpc[t] = "idle"
    /\ fcalls < MaxFifoCalls
    /\ ~head_locked
    /\ fcalls' = fcalls + 1
    /\ fl' = [fl EXCEPT ![t] = fhead]
    /\ head_locked' = (fhead # NULL)
    /\ fpc' = [fpc EXCEPT ![t] = IF fhead = NULL THEN "idle" ELSE "deq_next"]
    /\ UNCHANGED <<fhead, ftail, fnext, tail_locked, fentry, fenq, fdeq>>
    /\ UNCHANGED nonFifoVars

\* MpmcFifo::dequeue: let next = (*head_ptr).next.load(); *head = next;
\* Some(head_ptr), dropping the head guard, unless next is null
mpmc_deq_next(t) ==
    /\ fpc[t] = "deq_next"
    /\ fhead' = fnext[fl[t]]
    /\ fdeq' = Append(fdeq, fl[t])
    /\ IF fnext[fl[t]] = NULL
         THEN /\ fpc' = [fpc EXCEPT ![t] = "deq_tail"]
              /\ UNCHANGED head_locked
         ELSE /\ fpc' = [fpc EXCEPT ![t] = "idle"]
              /\ head_locked' = FALSE
    /\ fl' = [fl EXCEPT ![t] = NULL]
    /\ UNCHANGED <<ftail, fnext, tail_locked, fentry, fcalls, fenq>>
    /\ UNCHANGED nonFifoVars

\* MpmcFifo::dequeue, next was null: tail.lock(); *tail = null; both guards
\* are dropped; Some(head_ptr)
mpmc_deq_tail(t) ==
    /\ fpc[t] = "deq_tail"
    /\ ~tail_locked
    /\ ftail' = NULL
    /\ head_locked' = FALSE
    /\ fpc' = [fpc EXCEPT ![t] = "idle"]
    /\ UNCHANGED <<fhead, fnext, tail_locked, fentry, fl, fcalls, fenq, fdeq>>
    /\ UNCHANGED nonFifoVars

MpmcFifoNext ==
    \E t \in FifoThreads :
        \/ \E e \in FifoEntries : mpmc_enq_lock(t, e)
        \/ mpmc_enq_link(t)
        \/ mpmc_enq_tail(t)
        \/ mpmc_deq_lock(t)
        \/ mpmc_deq_next(t)
        \/ mpmc_deq_tail(t)

\* MpmcFifo::is_empty: head.lock(), which returns once its swap has found the
\* lock free
mpmc_empty_lock(t) ==
    /\ fpc[t] = "idle"
    /\ fcalls < MaxFifoCalls
    /\ ~head_locked
    /\ head_locked' = TRUE
    /\ fcalls' = fcalls + 1
    /\ fpc' = [fpc EXCEPT ![t] = "empty_ret"]
    /\ UNCHANGED <<fhead, ftail, fnext, tail_locked, fentry, fl, fenq, fdeq>>
    /\ UNCHANGED nonFifoVars

\* MpmcFifo::is_empty: head.is_null(); the head guard is dropped on return
mpmc_empty_return(t) ==
    /\ fpc[t] = "empty_ret"
    /\ head_locked' = FALSE
    /\ fpc' = [fpc EXCEPT ![t] = "idle"]
    /\ UNCHANGED <<fhead, ftail, fnext, tail_locked, fentry, fl, fcalls, fenq, fdeq>>
    /\ UNCHANGED nonFifoVars

\* the steps of thread t on an MpmcFifo
MpmcStep(t) ==
    \/ \E e \in FifoEntries : mpmc_enq_lock(t, e)
    \/ mpmc_enq_link(t)
    \/ mpmc_enq_tail(t)
    \/ mpmc_deq_lock(t)
    \/ mpmc_deq_next(t)
    \/ mpmc_deq_tail(t)
    \/ mpmc_empty_lock(t)
    \/ mpmc_empty_return(t)

MpmcFifoLiveNext == \E t \in FifoThreads : MpmcStep(t)

\* fair scheduling: a thread that can take a step is not passed over for ever
MpmcFairness == \A t \in FifoThreads : WF_vars(MpmcStep(t))


(***************************************************************************)
(* SPSC ring buffer: src/src/ring.rs                                       *)
(***************************************************************************)
RingBits     == 2      \* N = 2^RingBits slots
MaxRingCalls == 10     \* calls of enqueue and dequeue

\* the const parameter N of SpscRing<T, N>, a power of two
RingN == 2 ^ RingBits

RingSlots == 0..(RingN - 1)

\* a & b on naturals
RECURSIVE BitAnd(_, _)
BitAnd(a, b) ==
    IF a = 0 \/ b = 0 THEN 0
    ELSE 2 * BitAnd(a \div 2, b \div 2) + (IF a % 2 = 1 /\ b % 2 = 1 THEN 1 ELSE 0)

\* (index + 1) & (N - 1)
RingSucc(index) == BitAnd(index + 1, RingN - 1)

\* SpscRing::new: head = tail = 0, every slot uninitialized
RingInit ==
    /\ rbuffer = [k \in RingSlots |-> 0]
    /\ rinit = [k \in RingSlots |-> FALSE]
    /\ rhead = 0
    /\ rtail = 0
    /\ rpc = [t \in {Producer, Consumer} |-> "idle"]
    /\ ritem = [t \in {Producer, Consumer} |-> 0]
    /\ rl = [t \in {Producer, Consumer} |-> 0]
    /\ rcalls = 0
    /\ renq = <<>>
    /\ rdeq = <<>>

\* mutant of ring_full: the ring is found full one item early
ring_full_early(next_tail, head) == next_tail = head \/ RingSucc(next_tail) = head

\* mutant of ring_full: the ring is never found full
ring_never_full(next_tail, head) == FALSE

\* enqueue: next_tail == head.load()
ring_full(next_tail, head) == next_tail = head

\* SpscRing::enqueue(item): let tail = tail.load()
ring_enq_tail(item) ==
    /\ rpc[Producer] = "idle"
    /\ rcalls < MaxRingCalls
    /\ rcalls' = rcalls + 1
    /\ ritem' = [ritem EXCEPT ![Producer] = item]
    /\ rl' = [rl EXCEPT ![Producer] = rtail]
    /\ rpc' = [rpc EXCEPT ![Producer] = "enq_head"]
    /\ UNCHANGED <<rbuffer, rinit, rhead, rtail, renq, rdeq>>
    /\ UNCHANGED nonRingVars

\* enqueue: if next_tail == head.load() { return Err(item) }
ring_enq_head ==
    /\ rpc[Producer] = "enq_head"
    /\ rpc' = [rpc EXCEPT ![Producer] =
          IF ring_full(RingSucc(rl[Producer]), rhead) THEN "idle" ELSE "enq_write"]
    /\ UNCHANGED <<rbuffer, rinit, rhead, rtail, ritem, rl, rcalls, renq, rdeq>>
    /\ UNCHANGED nonRingVars

\* enqueue: buffer[tail].write(item)
ring_enq_write ==
    /\ rpc[Producer] = "enq_write"
    /\ rbuffer' = [rbuffer EXCEPT ![rl[Producer]] = ritem[Producer]]
    /\ rinit' = [rinit EXCEPT ![rl[Producer]] = TRUE]
    /\ rpc' = [rpc EXCEPT ![Producer] = "enq_store"]
    /\ UNCHANGED <<rhead, rtail, ritem, rl, rcalls, renq, rdeq>>
    /\ UNCHANGED nonRingVars

\* enqueue: tail.store(next_tail); Ok(())
ring_enq_store ==
    /\ rpc[Producer] = "enq_store"
    /\ rtail' = RingSucc(rl[Producer])
    /\ renq' = Append(renq, ritem[Producer])
    /\ rpc' = [rpc EXCEPT ![Producer] = "idle"]
    /\ UNCHANGED <<rbuffer, rinit, rhead, ritem, rl, rcalls, rdeq>>
    /\ UNCHANGED nonRingVars

\* SpscRing::dequeue: let head = head.load()
ring_deq_head ==
    /\ rpc[Consumer] = "idle"
    /\ rcalls < MaxRingCalls
    /\ rcalls' = rcalls + 1
    /\ rl' = [rl EXCEPT ![Consumer] = rhead]
    /\ rpc' = [rpc EXCEPT ![Consumer] = "deq_tail"]
    /\ UNCHANGED <<rbuffer, rinit, rhead, rtail, ritem, renq, rdeq>>
    /\ UNCHANGED nonRingVars

\* dequeue: if head == tail.load() { return None }
ring_deq_tail ==
    /\ rpc[Consumer] = "deq_tail"
    /\ rpc' = [rpc EXCEPT ![Consumer] =
          IF rl[Consumer] = rtail THEN "idle" ELSE "deq_read"]
    /\ UNCHANGED <<rbuffer, rinit, rhead, rtail, ritem, rl, rcalls, renq, rdeq>>
    /\ UNCHANGED nonRingVars

\* dequeue: let item = buffer[head].assume_init_read(), which moves the item
\* out of the slot; any item when the slot holds none
ring_deq_read ==
    /\ rpc[Consumer] = "deq_read"
    /\ \E item \in IF rinit[rl[Consumer]] THEN {rbuffer[rl[Consumer]]}
                                         ELSE 0..MaxRingCalls :
          ritem' = [ritem EXCEPT ![Consumer] = item]
    /\ rinit' = [rinit EXCEPT ![rl[Consumer]] = FALSE]
    /\ rpc' = [rpc EXCEPT ![Consumer] = "deq_store"]
    /\ UNCHANGED <<rbuffer, rhead, rtail, rl, rcalls, renq, rdeq>>
    /\ UNCHANGED nonRingVars

\* dequeue: head.store((head + 1) & (N - 1)); Some(item)
ring_deq_store ==
    /\ rpc[Consumer] = "deq_store"
    /\ rhead' = RingSucc(rl[Consumer])
    /\ rdeq' = Append(rdeq, ritem[Consumer])
    /\ rpc' = [rpc EXCEPT ![Consumer] = "idle"]
    /\ UNCHANGED <<rbuffer, rinit, rtail, ritem, rl, rcalls, renq>>
    /\ UNCHANGED nonRingVars

\* the producer numbers its items, so that every item is distinct
SpscRingNext ==
    \/ ring_enq_tail(rcalls + 1)
    \/ ring_enq_head
    \/ ring_enq_write
    \/ ring_enq_store
    \/ ring_deq_head
    \/ ring_deq_tail
    \/ ring_deq_read
    \/ ring_deq_store


\* one thread makes the calls of both roles, each call after the other
SpscRingSeqNext ==
    \/ rpc[Consumer] = "idle" /\ ring_enq_tail(rcalls + 1)
    \/ ring_enq_head
    \/ ring_enq_write
    \/ ring_enq_store
    \/ rpc[Producer] = "idle" /\ ring_deq_head
    \/ ring_deq_tail
    \/ ring_deq_read
    \/ ring_deq_store

(***************************************************************************)
(* Sequence lock: src/src/sequence.rs                                      *)
(***************************************************************************)
NumReaders   == 1   \* reader threads
MaxSeqWrites == 2   \* calls of write by the one writer
MaxSeqReads  == 2   \* calls of read

Readers == 1..NumReaders

\* a u32 is kept as two 16-bit halves
U32Half == 65536

\* mutant of wrapping_add1: the counter is left as it is
wrapping_keep(v) == v

\* u32::wrapping_add(1)
wrapping_add1(v) ==
    IF v[2] + 1 < U32Half THEN <<v[1], v[2] + 1>>
    ELSE IF v[1] + 1 < U32Half THEN <<v[1] + 1, 0>>
    ELSE <<0, 0>>

\* mutant of seq_changed: read_retry never asks for a retry
seq_never_changed(seq, version) == FALSE

\* read_retry: sequence.load() != version
seq_changed(seq, version) == seq # version

\* SeqLock::new, or a lock whose counter is about to wrap around; the data is
\* as the writer left it, nobody is in a call
SeqInit ==
    /\ sequence \in {<<0, 0>>, <<U32Half - 1, U32Half - 2>>}
    /\ sqdata = <<0, 0>>
    /\ sqwpc = "idle"
    /\ sqbegun = 0
    /\ sqended = 0
    /\ sqpc = [r \in Readers |-> "idle"]
    /\ sqver = [r \in Readers |-> <<0, 0>>]
    /\ sqres = [r \in Readers |-> <<0, 0>>]
    /\ sqstart = [r \in Readers |-> 0]
    /\ sqseen = [r \in Readers |-> 0]
    /\ sqcalls = 0

\* a sequence lock nobody uses
SeqIdle ==
    /\ sequence = <<0, 0>>
    /\ sqdata = <<0, 0>>
    /\ sqwpc = "idle"
    /\ sqbegun = 0
    /\ sqended = 0
    /\ sqpc = [r \in Readers |-> "idle"]
    /\ sqver = [r \in Readers |-> <<0, 0>>]
    /\ sqres = [r \in Readers |-> <<0, 0>>]
    /\ sqstart = [r \in Readers |-> 0]
    /\ sqseen = [r \in Readers |-> 0]
    /\ sqcalls = 0

\* SeqLock::write(f) -> write_begin: sequence.store(sequence.load() + 1); the
\* writer is the only thread that stores to sequence
write_begin ==
    /\ sqwpc = "idle"
    /\ sqbegun < MaxSeqWrites
    /\ sqbegun' = sqbegun + 1
    /\ sequence' = wrapping_add1(sequence)
    /\ sqwpc' = "word1"
    /\ UNCHANGED <<sqdata, sqended, sqpc, sqver, sqres, sqstart, sqseen, sqcalls>>
    /\ UNCHANGED nonSeqVars

\* SeqLock::write(f): f() stores the number of the write into one word
write_data ==
    /\ sqwpc \in {"word1", "word2"}
    /\ sqdata' = [sqdata EXCEPT ![IF sqwpc = "word1" THEN 1 ELSE 2] = sqbegun]
    /\ sqwpc' = IF sqwpc = "word1" THEN "word2" ELSE "end"
    /\ UNCHANGED <<sequence, sqbegun, sqended, sqpc, sqver, sqres, sqstart, sqseen,
                   sqcalls>>
    /\ UNCHANGED nonSeqVars

\* SeqLock::write(f) -> write_end: sequence.store(sequence.load() + 1)
write_end ==
    /\ sqwpc = "end"
    /\ sequence' = wrapping_add1(sequence)
    /\ sqended' = sqended + 1
    /\ sqwpc' = "idle"
    /\ UNCHANGED <<sqdata, sqbegun, sqpc, sqver, sqres, sqstart, sqseen, sqcalls>>
    /\ UNCHANGED nonSeqVars

\* SeqLock::read(f) -> read_begin: one iteration of its loop: sequence.load();
\* return it when seq & 1 == 0, else stall and load again
read_begin(r) ==
    /\ \/ /\ sqpc[r] = "idle"
          /\ sqcalls < MaxSeqReads
          /\ sqcalls' = sqcalls + 1
          /\ sqstart' = [sqstart EXCEPT ![r] = sqended]
       \/ /\ sqpc[r] = "begin"
          /\ UNCHANGED <<sqcalls, sqstart>>
    /\ IF sequence[2] % 2 = 0
         THEN /\ sqver' = [sqver EXCEPT ![r] = sequence]
              /\ sqseen' = [sqseen EXCEPT ![r] = sqended]
              /\ sqpc' = [sqpc EXCEPT ![r] = "word1"]
         ELSE /\ sqpc' = [sqpc EXCEPT ![r] = "begin"]
              /\ UNCHANGED <<sqver, sqseen>>
    /\ UNCHANGED <<sequence, sqdata, sqwpc, sqbegun, sqended, sqres>>
    /\ UNCHANGED nonSeqVars

\* SeqLock::read(f): f() loads one word of the data
read_data(r) ==
    /\ sqpc[r] \in {"word1", "word2"}
    /\ sqres' = [sqres EXCEPT ![r][IF sqpc[r] = "word1" THEN 1 ELSE 2] =
          sqdata[IF sqpc[r] = "word1" THEN 1 ELSE 2]]
    /\ sqpc' = [sqpc EXCEPT ![r] = IF sqpc[r] = "word1" THEN "word2" ELSE "retry"]
    /\ UNCHANGED <<sequence, sqdata, sqwpc, sqbegun, sqended, sqver, sqstart, sqseen,
                   sqcalls>>
    /\ UNCHANGED nonSeqVars

\* SeqLock::read(f) -> read_retry(version): fence, sequence.load() != version;
\* the result is returned when it is false, else the loop starts again
read_retry(r) ==
    /\ sqpc[r] = "retry"
    /\ sqpc' = [sqpc EXCEPT ![r] =
          IF seq_changed(sequence, sqver[r]) THEN "begin" ELSE "returned"]
    /\ UNCHANGED <<sequence, sqdata, sqwpc, sqbegun, sqended, sqver, sqres, sqstart,
                   sqseen, sqcalls>>
    /\ UNCHANGED nonSeqVars

\* the caller has the result of read and may call again
read_return(r) ==
    /\ sqpc[r] = "returned"
    /\ sqpc' = [sqpc EXCEPT ![r] = "idle"]
    /\ UNCHANGED <<sequence, sqdata, sqwpc, sqbegun, sqended, sqver, sqres, sqstart,
                   sqseen, sqcalls>>
    /\ UNCHANGED nonSeqVars

SeqLockNext ==
    \/ write_begin
    \/ write_data
    \/ write_end
    \/ \E r \in Readers :
          \/ read_begin(r)
          \/ read_data(r)
          \/ read_retry(r)
          \/ read_return(r)


(***************************************************************************)
(* Ticket lock: src/src/spinlock.rs                                        *)
(***************************************************************************)
NumTicketThreads == 3   \* threads using the lock
MaxTicketCalls   == 4   \* calls of lock and try_lock

TicketThreads == 1..NumTicketThreads

\* mutant of try_free: try_lock takes the lock whoever holds it
try_free_always(ticket, serving) == TRUE

\* try_lock: ticket == serving
try_free(ticket, serving) == ticket = serving

\* mutant of is_served: lock does not wait for its ticket
is_served_always(serving, ticket) == TRUE

\* lock: the loop ends when now_serving.load() == ticket
is_served(serving, ticket) == serving = ticket

\* mutant of serve_next: dropping the guard leaves now_serving as it is
serve_same(serving) == serving

\* Drop: now_serving.fetch_add(1)
serve_next(serving) == serving + 1

\* TicketLock::new
TicketInit ==
    /\ next_ticket = 0
    /\ now_serving = 0
    /\ tpc = [t \in TicketThreads |-> "idle"]
    /\ tticket = [t \in TicketThreads |-> 0]
    /\ tkcalls = 0

\* TicketLock::try_lock: ticket = next_ticket.load()
try_lock_ticket(t) ==
    /\ tpc[t] = "idle"
    /\ tkcalls < MaxTicketCalls
    /\ tkcalls' = tkcalls + 1
    /\ tticket' = [tticket EXCEPT ![t] = next_ticket]
    /\ tpc' = [tpc EXCEPT ![t] = "try_serving"]
    /\ UNCHANGED <<next_ticket, now_serving>>
    /\ UNCHANGED nonTicketVars

\* TicketLock::try_lock: serving = now_serving.load(); None unless
\* ticket == serving
try_lock_serving(t) ==
    /\ tpc[t] = "try_serving"
    /\ tpc' = [tpc EXCEPT ![t] =
          IF try_free(tticket[t], now_serving) THEN "try_cas" ELSE "idle"]
    /\ UNCHANGED <<next_ticket, now_serving, tticket, tkcalls>>
    /\ UNCHANGED nonTicketVars

\* TicketLock::try_lock: next_ticket.compare_exchange(ticket, ticket + 1); the
\* guard when it succeeds, else None
try_lock_cas(t) ==
    /\ tpc[t] = "try_cas"
    /\ IF next_ticket = tticket[t]
         THEN /\ next_ticket' = tticket[t] + 1
              /\ tpc' = [tpc EXCEPT ![t] = "try_held"]
         ELSE /\ tpc' = [tpc EXCEPT ![t] = "idle"]
              /\ UNCHANGED next_ticket
    /\ UNCHANGED <<now_serving, tticket, tkcalls>>
    /\ UNCHANGED nonTicketVars

\* TicketLock::lock: ticket = next_ticket.fetch_add(1)
lock_ticket(t) ==
    /\ tpc[t] = "idle"
    /\ tkcalls < MaxTicketCalls
    /\ tkcalls' = tkcalls + 1
    /\ tticket' = [tticket EXCEPT ![t] = next_ticket]
    /\ next_ticket' = next_ticket + 1
    /\ tpc' = [tpc EXCEPT ![t] = "spin"]
    /\ UNCHANGED now_serving
    /\ UNCHANGED nonTicketVars

\* TicketLock::lock: one iteration of while now_serving.load() != ticket; the
\* guard is returned when the loop ends
lock_spin(t) ==
    /\ tpc[t] = "spin"
    /\ IF is_served(now_serving, tticket[t])
         THEN tpc' = [tpc EXCEPT ![t] = "held"]
         ELSE UNCHANGED tpc
    /\ UNCHANGED <<next_ticket, now_serving, tticket, tkcalls>>
    /\ UNCHANGED nonTicketVars

\* Drop for TicketLockGuard, whether lock ("held") or try_lock ("try_held")
\* returned it: now_serving.fetch_add(1)
ticket_drop(t) ==
    /\ tpc[t] \in {"held", "try_held"}
    /\ now_serving' = serve_next(now_serving)
    /\ tpc' = [tpc EXCEPT ![t] = "idle"]
    /\ UNCHANGED <<next_ticket, tticket, tkcalls>>
    /\ UNCHANGED nonTicketVars

TicketNext ==
    \E t \in TicketThreads :
        \/ try_lock_ticket(t)
        \/ try_lock_serving(t)
        \/ try_lock_cas(t)
        \/ lock_ticket(t)
        \/ lock_spin(t)
        \/ ticket_drop(t)

\* fair scheduling of the threads that are inside lock or hold a guard: a
\* thread whose loop can end leaves it, and every guard is dropped
TicketFairness ==
    \A t \in TicketThreads :
        /\ WF_vars(lock_spin(t))
        /\ WF_vars(ticket_drop(t))
        /\ WF_vars(try_lock_serving(t))
        /\ WF_vars(try_lock_cas(t))

(***************************************************************************)
(* Phase-fair reader-writer lock: src/src/pflock.rs                        *)
(***************************************************************************)
NumPfThreads == 3   \* threads using the lock
MaxPfCalls   == 4   \* calls of read and write

PfThreads == 1..NumPfThreads

WBIT == 1
RINC == 4

\* mutant of no_writer: read does not look at the writer bit
no_writer_always(state) == TRUE

\* (state & WBIT) == 0
no_writer(state) == state % 2 = 0

\* mutant of readers_gone: write does not wait for the readers
readers_gone_always(state) == TRUE

\* (state & RMASK) == 0, RMASK = !0x3
readers_gone(state) == (state \div 4) * 4 = 0

ReadGuards  == {t \in PfThreads : pfpc[t] = "read_held"}
WriteGuards == {t \in PfThreads : pfpc[t] = "write_held"}
\* the calls of read that found the writer bit set, or lost a compare_exchange,
\* and spin
ReadWaiters == {t \in PfThreads : pfpc[t] = "r_load"}

\* PfLock::new
PfInit ==
    /\ pfstate = 0
    /\ pfpc = [t \in PfThreads |-> "idle"]
    /\ pflocal = [t \in PfThreads |-> 0]
    /\ pfcalls = 0
    /\ pfbefore = [t \in PfThreads |-> {}]
    /\ pfdropped = [t \in PfThreads |-> FALSE]

\* PfLock::read: state = self.state.load(), at the start of the call or of
\* another iteration; on to the compare_exchange when the writer bit is clear,
\* else spin
pf_read_load(t) ==
    /\ \/ /\ pfpc[t] = "idle"
          /\ pfcalls < MaxPfCalls
          /\ pfcalls' = pfcalls + 1
       \/ /\ pfpc[t] = "r_load"
          /\ UNCHANGED pfcalls
    /\ pflocal' = [pflocal EXCEPT ![t] = pfstate]
    /\ pfpc' = [pfpc EXCEPT ![t] = IF no_writer(pfstate) THEN "r_cas" ELSE "r_load"]
    /\ UNCHANGED <<pfstate, pfbefore, pfdropped>>
    /\ UNCHANGED nonPfVars

\* PfLock::read: compare_exchange_weak(state, state + RINC); the guard when it
\* succeeds; it may fail although the value matches
pf_read_cas(t) ==
    /\ pfpc[t] = "r_cas"
    /\ \/ /\ pfstate = pflocal[t]
          /\ pfstate' = pflocal[t] + RINC
          /\ pfpc' = [pfpc EXCEPT ![t] = "read_held"]
          /\ pfbefore' = [w \in PfThreads |-> pfbefore[w] \ {t}]
          /\ pfdropped' = [pfdropped EXCEPT ![t] = FALSE]
       \/ /\ pfpc' = [pfpc EXCEPT ![t] = "r_load"]
          /\ UNCHANGED <<pfstate, pfbefore, pfdropped>>
    /\ UNCHANGED <<pflocal, pfcalls>>
    /\ UNCHANGED nonPfVars

\* Drop for PfLockReadGuard: state.fetch_sub(RINC); a value below RINC, where
\* the u32 would wrap, shows as a negative state
pf_read_drop(t) ==
    /\ pfpc[t] = "read_held"
    /\ pfstate' = pfstate - RINC
    /\ pfpc' = [pfpc EXCEPT ![t] = "idle"]
    /\ UNCHANGED <<pflocal, pfcalls, pfbefore, pfdropped>>
    /\ UNCHANGED nonPfVars

\* PfLock::write, first loop: state = self.state.load(), at the start of the
\* call or of another iteration; on to the compare_exchange when the writer bit
\* is clear, else spin
pf_write_load(t) ==
    /\ \/ /\ pfpc[t] = "idle"
          /\ pfcalls < MaxPfCalls
          /\ pfcalls' = pfcalls + 1
          /\ pfbefore' = [pfbefore EXCEPT ![t] = ReadWaiters]
       \/ /\ pfpc[t] = "w_load"
          /\ UNCHANGED <<pfcalls, pfbefore>>
    /\ pflocal' = [pflocal EXCEPT ![t] = pfstate]
    /\ pfpc' = [pfpc EXCEPT ![t] = IF no_writer(pfstate) THEN "w_cas" ELSE "w_load"]
    /\ UNCHANGED <<pfstate, pfdropped>>
    /\ UNCHANGED nonPfVars

\* PfLock::write, first loop: compare_exchange_weak(state, state | WBIT), the
\* local state having the bit clear; it may fail although the value matches
pf_write_cas(t) ==
    /\ pfpc[t] = "w_cas"
    /\ \/ /\ pfstate = pflocal[t]
          /\ pfstate' = pflocal[t] + WBIT
          /\ pfpc' = [pfpc EXCEPT ![t] = "w_wait"]
       \/ /\ pfpc' = [pfpc EXCEPT ![t] = "w_load"]
          /\ UNCHANGED pfstate
    /\ UNCHANGED <<pflocal, pfcalls, pfbefore, pfdropped>>
    /\ UNCHANGED nonPfVars

\* PfLock::write, second loop: one iteration of
\* while (state.load() & RMASK) != 0; the guard is returned when the loop ends
pf_write_wait(t) ==
    /\ pfpc[t] = "w_wait"
    /\ IF readers_gone(pfstate)
         THEN pfpc' = [pfpc EXCEPT ![t] = "write_held"]
         ELSE UNCHANGED pfpc
    /\ UNCHANGED <<pfstate, pflocal, pfcalls, pfbefore, pfdropped>>
    /\ UNCHANGED nonPfVars

\* Drop for PfLockWriteGuard: state.fetch_and(!WBIT)
pf_write_drop(t) ==
    /\ pfpc[t] = "write_held"
    /\ pfstate' = pfstate - (pfstate % 2)
    /\ pfpc' = [pfpc EXCEPT ![t] = "idle"]
    /\ pfbefore' = [pfbefore EXCEPT ![t] = {}]
    /\ pfdropped' = [r \in PfThreads |-> pfdropped[r] \/ r \in ReadWaiters]
    /\ UNCHANGED <<pflocal, pfcalls>>
    /\ UNCHANGED nonPfVars

PfLockNext ==
    \E t \in PfThreads :
        \/ pf_read_load(t)
        \/ pf_read_cas(t)
        \/ pf_read_drop(t)
        \/ pf_write_load(t)
        \/ pf_write_cas(t)
        \/ pf_write_wait(t)
        \/ pf_write_drop(t)

(***************************************************************************)
(* Exponential backoff: src/src/backoff.rs                                 *)
(***************************************************************************)
MaxInitial == 5     \* with_initial(k) is called with k or BACKOFF_CEILING - k,
                    \*   k in 0..MaxInitial

BACKOFF_INITIAL == 2 ^ 9
BACKOFF_CEILING == 2 ^ 20 - 1

\* mutant of spin_value: doubling without the ceiling
spin_double(v) == 2 * v

\* Backoff::spin: if ceiling < BACKOFF_CEILING, value becomes
\* ceiling.saturating_mul(2).min(BACKOFF_CEILING); below the ceiling the
\* multiplication stays under 2^21 and cannot saturate
spin_value(v) ==
    IF v < BACKOFF_CEILING
      THEN (IF 2 * v < BACKOFF_CEILING THEN 2 * v ELSE BACKOFF_CEILING)
      ELSE v

\* Backoff::new() or Backoff::with_initial(k)
BackoffInit ==
    /\ bvalue \in {BACKOFF_INITIAL} \cup (0..MaxInitial)
                     \cup {BACKOFF_CEILING - k : k \in 0..MaxInitial}
    /\ binit = bvalue
    /\ blast = "new"

\* a Backoff nobody uses
BackoffIdle ==
    /\ bvalue = BACKOFF_INITIAL
    /\ binit = BACKOFF_INITIAL
    /\ blast = "new"

\* Backoff::spin
backoff_spin ==
    /\ bvalue' = spin_value(bvalue)
    /\ blast' = "spin"
    /\ UNCHANGED binit
    /\ UNCHANGED nonBackoffVars

\* Backoff::reset: self.value = BACKOFF_INITIAL
backoff_reset ==
    /\ bvalue' = BACKOFF_INITIAL
    /\ blast' = "reset"
    /\ UNCHANGED binit
    /\ UNCHANGED nonBackoffVars

BackoffNext ==
    \/ backoff_spin
    \/ backoff_reset

(***************************************************************************)
(* Concurrent bitmap: src/src/bitmap.rs                                    *)
(***************************************************************************)
NumWords == 2       \* N of Bitmap<N>
WordBits == 2       \* BITS_PER_WORD, scaled down from 64

WordIdx == 0..(NumWords - 1)
\* the indices passed to the operations: every bit and one index past the end
BitIndices == 0..(NumWords * WordBits)

\* (w & (1 << bit)) != 0
test_bit(w, bit) == (w \div (2 ^ bit)) % 2 = 1

\* mutant of fetch_or: the word is overwritten by the mask
store_mask(w, bit) == 2 ^ bit

\* AtomicUsize::fetch_or(1 << bit): the new value of the word
fetch_or(w, bit) == IF test_bit(w, bit) THEN w ELSE w + 2 ^ bit

\* AtomicUsize::fetch_and(!(1 << bit)): the new value of the word
fetch_and_not(w, bit) == IF test_bit(w, bit) THEN w - 2 ^ bit ELSE w

\* AtomicUsize::fetch_xor(1 << bit): the new value of the word
fetch_xor(w, bit) == IF test_bit(w, bit) THEN w - 2 ^ bit ELSE w + 2 ^ bit

RECURSIVE count_ones(_)
count_ones(w) == IF w = 0 THEN 0 ELSE (w % 2) + count_ones(w \div 2)

\* the value of bit index of the bitmap
bit_of(ws, index) == test_bit(ws[index \div WordBits], index % WordBits)

\* the indices whose bit is set
SetBits(ws) == {i \in 0..(NumWords * WordBits - 1) : bit_of(ws, i)}

\* Bitmap::new
BitmapInit ==
    /\ bwords = [w \in WordIdx |-> 0]
    /\ bret = FALSE
    /\ ppc = "idle"
    /\ ppos = 0
    /\ psum = 0
    /\ pclean = TRUE

\* a word was changed while popcount is between its loads
touched(ws) == IF ppc = "idle" THEN pclean ELSE pclean /\ ws = bwords

\* Bitmap::get on the words: the atomic operation and the value returned
get_bit(index) ==
    LET word == index \div WordBits
        bit  == index % WordBits
    IN  /\ bret' = (IF word >= NumWords THEN FALSE
                     ELSE test_bit(bwords[word], bit))
        /\ UNCHANGED <<bwords, pclean>>

\* Bitmap::get
bitmap_get(index) ==
    /\ get_bit(index)
    /\ UNCHANGED <<ppc, ppos, psum>>
    /\ UNCHANGED nonBitmapVars

\* Bitmap::set on the words: the atomic operation and the value returned
fetch_set(index) ==
    LET word == index \div WordBits
        bit  == index % WordBits
    IN  /\ IF word >= NumWords
             THEN /\ bret' = FALSE
                  /\ UNCHANGED <<bwords, pclean>>
             ELSE /\ bret' = test_bit(bwords[word], bit)
                  /\ bwords' = [bwords EXCEPT ![word] = fetch_or(@, bit)]
                  /\ pclean' = touched(bwords')

\* Bitmap::set
bitmap_set(index) ==
    /\ fetch_set(index)
    /\ UNCHANGED <<ppc, ppos, psum>>
    /\ UNCHANGED nonBitmapVars

\* Bitmap::clear on the words: the atomic operation and the value returned
fetch_clear(index) ==
    LET word == index \div WordBits
        bit  == index % WordBits
    IN  /\ IF word >= NumWords
             THEN /\ bret' = FALSE
                  /\ UNCHANGED <<bwords, pclean>>
             ELSE /\ bret' = test_bit(bwords[word], bit)
                  /\ bwords' = [bwords EXCEPT ![word] = fetch_and_not(@, bit)]
                  /\ pclean' = touched(bwords')

\* Bitmap::clear
bitmap_clear(index) ==
    /\ fetch_clear(index)
    /\ UNCHANGED <<ppc, ppos, psum>>
    /\ UNCHANGED nonBitmapVars

\* Bitmap::toggle on the words: the atomic operation and the value returned
fetch_toggle(index) ==
    LET word == index \div WordBits
        bit  == index % WordBits
    IN  /\ IF word >= NumWords
             THEN /\ bret' = FALSE
                  /\ UNCHANGED <<bwords, pclean>>
             ELSE /\ bret' = test_bit(bwords[word], bit)
                  /\ bwords' = [bwords EXCEPT ![word] = fetch_xor(@, bit)]
                  /\ pclean' = touched(bwords')

\* Bitmap::toggle
bitmap_toggle(index) ==
    /\ fetch_toggle(index)
    /\ UNCHANGED <<ppc, ppos, psum>>
    /\ UNCHANGED nonBitmapVars

\* the step returned the value bit index had before it
returns_previous(index) == bret' = bit_of(bwords, index)

\* the step changed no bit other than bit index
no_other_bit(index) ==
    \/ bwords' = bwords
    \/ \A w \in WordIdx :
           IF w = index \div WordBits
             THEN \A b \in 0..(WordBits - 1) :
                     b # index % WordBits =>
                         test_bit(bwords'[w], b) = test_bit(bwords[w], b)
             ELSE bwords'[w] = bwords[w]

\* Bitmap::popcount, one word of the iteration: load it and add its count_ones
popcount_load ==
    /\ ppc \in {"idle", "loop"}
    /\ psum' = psum + count_ones(bwords[ppos])
    /\ ppos' = ppos + 1
    /\ ppc' = IF ppos + 1 = NumWords THEN "done" ELSE "loop"
    /\ UNCHANGED <<bwords, bret, pclean>>
    /\ UNCHANGED nonBitmapVars

\* Bitmap::popcount returns the sum
popcount_return ==
    /\ ppc = "done"
    /\ ppc' = "idle"
    /\ ppos' = 0
    /\ psum' = 0
    /\ pclean' = TRUE
    /\ UNCHANGED <<bwords, bret>>
    /\ UNCHANGED nonBitmapVars

BitmapNext ==
    \/ \E index \in BitIndices :
          \/ bitmap_get(index)
          \/ bitmap_set(index)
          \/ bitmap_clear(index)
          \/ bitmap_toggle(index)
    \/ popcount_load
    \/ popcount_return

(***************************************************************************)
(* Hash set, one writer: src/src/hs.rs                                     *)
(***************************************************************************)
MaxWrap == 1        \* the values are k * DEFAULT_CAPACITY + r,
MaxResidue == 1     \*   k in 0..MaxWrap and r in 0..MaxResidue
MaxHsetCalls == 4   \* calls made on the set

DEFAULT_CAPACITY == 16

HsetValues ==
    {k * DEFAULT_CAPACITY + r : k \in 0..MaxWrap, r \in 0..MaxResidue}

\* the four bytes of an i32 below 256 in native (little-endian) order
i32_bytes(v) == <<v, 0, 0, 0>>

\* AHasher::write from state 0 followed by finish; the values hashed stay far
\* below 2^64, where wrapping_mul and wrapping_add do not wrap
RECURSIVE hasher_write(_, _)
hasher_write(state, bytes) ==
    IF bytes = <<>> THEN state
    ELSE hasher_write(state * 31 + Head(bytes), Tail(bytes))

hash_value(v) == hasher_write(0, i32_bytes(v))

\* (hash as usize) & (cap - 1), cap a power of two
bucket_index(hash, cap) == hash % cap

\* a null entry pointer; an entry is <<hash, value>>
NullEntry == <<>>

\* HashSet::new: DEFAULT_CAPACITY empty buckets
HsetInit ==
    /\ hsetBuckets = [i \in 0..(DEFAULT_CAPACITY - 1) |-> NullEntry]
    /\ hsetSize = 0
    /\ hsetIn = {}
    /\ hsetLast = [op |-> "new", value |-> 0, ret |-> FALSE, was |-> FALSE]
    /\ hsetCalls = 0

\* the entry in the bucket of a value matches the value
hset_match(v) ==
    LET hash  == hash_value(v)
        entry == hsetBuckets[bucket_index(hash, DEFAULT_CAPACITY)]
    IN  entry # NullEntry /\ entry[1] = hash /\ entry[2] = v

\* HashSet::contains
hset_contains(v) ==
    /\ hsetCalls < MaxHsetCalls
    /\ hsetCalls' = hsetCalls + 1
    /\ hsetLast' = [op |-> "contains", value |-> v, ret |-> hset_match(v),
                    was |-> v \in hsetIn]
    /\ UNCHANGED <<hsetBuckets, hsetSize, hsetIn>>
    /\ UNCHANGED nonHsetVars

\* HashSet::insert
hset_insert(v) ==
    LET hash  == hash_value(v)
        index == bucket_index(hash, DEFAULT_CAPACITY)
    IN  /\ hsetCalls < MaxHsetCalls
        /\ hsetCalls' = hsetCalls + 1
        /\ hsetLast' = [op |-> "insert", value |-> v, ret |-> ~hset_match(v),
                        was |-> v \in hsetIn]
        /\ hsetIn' = hsetIn \cup {v}
        /\ IF hset_match(v)
             THEN UNCHANGED <<hsetBuckets, hsetSize>>
             ELSE /\ hsetBuckets' = [hsetBuckets EXCEPT
                                       ![index] = <<hash, v>>]
                  /\ hsetSize' = hsetSize + 1
        /\ UNCHANGED nonHsetVars

\* HashSet::remove
hset_remove(v) ==
    LET hash  == hash_value(v)
        index == bucket_index(hash, DEFAULT_CAPACITY)
    IN  /\ hsetCalls < MaxHsetCalls
        /\ hsetCalls' = hsetCalls + 1
        /\ hsetLast' = [op |-> "remove", value |-> v, ret |-> hset_match(v),
                        was |-> v \in hsetIn]
        /\ hsetIn' = hsetIn \ {v}
        /\ IF hset_match(v)
             THEN /\ hsetBuckets' = [hsetBuckets EXCEPT ![index] = NullEntry]
                  /\ hsetSize' = hsetSize - 1
             ELSE UNCHANGED <<hsetBuckets, hsetSize>>
        /\ UNCHANGED nonHsetVars

HashSetNext ==
    \E v \in HsetValues :
        \/ hset_contains(v)
        \/ hset_insert(v)
        \/ hset_remove(v)

(***************************************************************************)
(* Hash table, one writer and concurrent readers: src/src/ht.rs            *)
(***************************************************************************)
NumHtReaders == 1   \* reader threads
MaxHtKey == 1       \* the keys are k * DEFAULT_CAPACITY, k in 0..MaxHtKey
MaxHtValue == 1     \* the values inserted are 1..MaxHtValue
MaxHtEntries == 3   \* entries allocated by insert

HtReaders == 1..NumHtReaders
HtKeys == {k * DEFAULT_CAPACITY : k \in 0..MaxHtKey}
HtValues == 1..MaxHtValue
HtAddrs == 1..MaxHtEntries

\* HashTable::hash_key: SimpleHasher over the bytes of an i32 key
hash_key(key) == hasher_write(0, i32_bytes(key))

\* the bucket of a key
ht_index(key) == bucket_index(hash_key(key), DEFAULT_CAPACITY)

\* HashTable::with_allocator: DEFAULT_CAPACITY null buckets
HtInit ==
    /\ htBuckets = [i \in 0..(DEFAULT_CAPACITY - 1) |-> NULL]
    /\ htSize = 0
    /\ htEntry = [a \in HtAddrs |-> <<>>]
    /\ htFreed = {}
    /\ htNext = 1
    /\ htwpc = "idle"
    /\ htwkey = 0
    /\ htwval = 0
    /\ htwptr = NULL
    /\ htrpc = [r \in HtReaders |-> "idle"]
    /\ htref = [r \in HtReaders |-> NULL]

\* entry.hash == hash && entry.key == key
ht_match(ptr, key) ==
    /\ htEntry[ptr][1] = hash_key(key)
    /\ htEntry[ptr][2] = key

\* HashTable::get: load the bucket; a null pointer returns None, otherwise the
\* entry is compared and Some(&entry.value) returned on a match.  Reading an
\* entry that has been freed is undefined: the comparison may go either way.
ht_get(r, key) ==
    LET ptr == htBuckets[ht_index(key)]
    IN  /\ htrpc[r] = "idle"
        /\ ptr # NULL
        /\ \E found \in BOOLEAN :
              /\ ptr \notin htFreed => found = ht_match(ptr, key)
              /\ IF found
                   THEN /\ htrpc' = [htrpc EXCEPT ![r] = "held"]
                        /\ htref' = [htref EXCEPT ![r] = ptr]
                   ELSE UNCHANGED <<htrpc, htref>>
        /\ UNCHANGED <<htBuckets, htSize, htEntry, htFreed, htNext, htwpc,
                       htwkey, htwval, htwptr>>
        /\ UNCHANGED nonHtVars

\* the reader reads the value through the reference and lets it go
ht_use(r) ==
    /\ htrpc[r] = "held"
    /\ htrpc' = [htrpc EXCEPT ![r] = "idle"]
    /\ htref' = [htref EXCEPT ![r] = NULL]
    /\ UNCHANGED <<htBuckets, htSize, htEntry, htFreed, htNext, htwpc,
                   htwkey, htwval, htwptr>>
    /\ UNCHANGED nonHtVars

\* HashTable::insert up to the end of the `if`: the bucket is loaded, a
\* non-null entry is taken into a Box that is dropped at the end of the block,
\* and size is incremented unless the entry had the key
ht_insert_take(key, value) ==
    LET existing == htBuckets[ht_index(key)]
    IN  /\ htwpc = "idle"
        /\ htNext <= MaxHtEntries
        /\ htwpc' = "ins_store"
        /\ htwkey' = key
        /\ htwval' = value
        /\ htwptr' = existing
        /\ IF existing # NULL
             THEN /\ htFreed' = htFreed \cup {existing}
                  /\ htSize' = IF ht_match(existing, key)
                                 THEN htSize ELSE htSize + 1
             ELSE /\ htSize' = htSize + 1
                  /\ UNCHANGED htFreed
        /\ UNCHANGED <<htBuckets, htEntry, htNext, htrpc, htref>>
        /\ UNCHANGED nonHtVars

\* HashTable::insert: the new entry is allocated and stored in the bucket
ht_insert_store ==
    /\ htwpc = "ins_store"
    /\ htEntry' = [htEntry EXCEPT ![htNext] = <<hash_key(htwkey), htwkey, htwval>>]
    /\ htBuckets' = [htBuckets EXCEPT ![ht_index(htwkey)] = htNext]
    /\ htNext' = htNext + 1
    /\ htwpc' = "idle"
    /\ UNCHANGED <<htSize, htFreed, htwkey, htwval, htwptr, htrpc, htref>>
    /\ UNCHANGED nonHtVars

\* HashTable::remove up to the stores: a null bucket returns None; an entry
\* with the key is unlinked and size decremented; any other entry is put back
ht_remove_take(key) ==
    LET entry_ptr == htBuckets[ht_index(key)]
    IN  /\ htwpc = "idle"
        /\ entry_ptr # NULL
        /\ IF ht_match(entry_ptr, key)
             THEN /\ htBuckets' = [htBuckets EXCEPT ![ht_index(key)] = NULL]
                  /\ htSize' = htSize - 1
                  /\ htwpc' = "rem_free"
                  /\ htwkey' = key
                  /\ htwptr' = entry_ptr
             ELSE UNCHANGED <<htBuckets, htSize, htwpc, htwkey, htwptr>>
        /\ UNCHANGED <<htEntry, htFreed, htNext, htwval, htrpc, htref>>
        /\ UNCHANGED nonHtVars

\* HashTable::remove returns Some(entry.value): the Box of the entry is dropped
ht_remove_free ==
    /\ htwpc = "rem_free"
    /\ htFreed' = htFreed \cup {htwptr}
    /\ htwpc' = "idle"
    /\ UNCHANGED <<htBuckets, htSize, htEntry, htNext, htwkey, htwval, htwptr,
                   htrpc, htref>>
    /\ UNCHANGED nonHtVars

HashTableNext ==
    \/ \E key \in HtKeys :
          \/ \E r \in HtReaders : ht_get(r, key)
          \/ \E value \in HtValues : ht_insert_take(key, value)
          \/ ht_remove_take(key)
    \/ \E r \in HtReaders : ht_use(r)
    \/ ht_insert_store
    \/ ht_remove_free

(***************************************************************************)
(* Reader-writer lock: src/src/rwlock.rs                                   *)
(***************************************************************************)
NumRwThreads == 3   \* threads using the lock

WRITER == 1
READER == 2

RwThreads == 1..NumRwThreads

\* state & WRITER != 0
writer_bit(state) == state % 2 = 1

\* the threads spinning in write(): their try_write has failed
WaitingWriters == {t \in RwThreads : rwpc[t] = "w_spin"}

\* RwLock::new
RwInit ==
    /\ rwstate = 0
    /\ rwpc = [t \in RwThreads |-> "idle"]
    /\ rwcall = [t \in RwThreads |-> "none"]
    /\ rwseen = [t \in RwThreads |-> 0]
    /\ rwsince = [t \in RwThreads |-> {}]

\* a thread calls try_read() or read()
rw_read_begin(t, call) ==
    /\ rwpc[t] = "idle"
    /\ rwpc' = [rwpc EXCEPT ![t] = "r_load"]
    /\ rwcall' = [rwcall EXCEPT ![t] = call]
    /\ rwsince' = [rwsince EXCEPT ![t] = WaitingWriters]
    /\ UNCHANGED <<rwstate, rwseen>>
    /\ UNCHANGED nonRwVars

\* RwLock::try_read: load the state; with the WRITER bit set it returns None,
\* and read() spins and calls it again
rw_read_load(t) ==
    /\ rwpc[t] = "r_load"
    /\ rwseen' = [rwseen EXCEPT ![t] = rwstate]
    /\ rwpc' = [rwpc EXCEPT ![t] =
                  IF writer_bit(rwstate)
                    THEN (IF rwcall[t] = "read" THEN "r_load" ELSE "idle")
                    ELSE "r_cas"]
    /\ UNCHANGED <<rwstate, rwcall, rwsince>>
    /\ UNCHANGED nonRwVars

\* RwLock::try_read: compare_exchange(state, state + READER)
rw_read_cas(t) ==
    /\ rwpc[t] = "r_cas"
    /\ IF rwstate = rwseen[t]
         THEN /\ rwstate' = rwseen[t] + READER
              /\ rwpc' = [rwpc EXCEPT ![t] = "read"]
         ELSE /\ rwpc' = [rwpc EXCEPT ![t] =
                            IF rwcall[t] = "read" THEN "r_load" ELSE "idle"]
              /\ UNCHANGED rwstate
    /\ UNCHANGED <<rwcall, rwseen, rwsince>>
    /\ UNCHANGED nonRwVars

\* RwLockReadGuard::drop
rw_read_drop(t) ==
    /\ rwpc[t] = "read"
    /\ rwstate' = rwstate - READER
    /\ rwpc' = [rwpc EXCEPT ![t] = "idle"]
    /\ rwsince' = [rwsince EXCEPT ![t] = {}]
    /\ UNCHANGED <<rwcall, rwseen>>
    /\ UNCHANGED nonRwVars

\* a thread calls try_write() or write()
rw_write_begin(t, call) ==
    /\ rwpc[t] = "idle"
    /\ rwpc' = [rwpc EXCEPT ![t] = "w_cas"]
    /\ rwcall' = [rwcall EXCEPT ![t] = call]
    /\ UNCHANGED <<rwstate, rwseen, rwsince>>
    /\ UNCHANGED nonRwVars

\* RwLock::try_write: compare_exchange(0, WRITER); on failure try_write
\* returns None and write() spins and calls it again
rw_write_cas(t) ==
    /\ rwpc[t] \in {"w_cas", "w_spin"}
    /\ IF rwstate = 0
         THEN /\ rwstate' = WRITER
              /\ rwpc' = [rwpc EXCEPT ![t] = "write"]
              /\ rwsince' = [u \in RwThreads |-> rwsince[u] \ {t}]
         ELSE /\ rwpc' = [rwpc EXCEPT ![t] =
                            IF rwcall[t] = "write" THEN "w_spin" ELSE "idle"]
              /\ UNCHANGED <<rwstate, rwsince>>
    /\ UNCHANGED <<rwcall, rwseen>>
    /\ UNCHANGED nonRwVars

\* RwLockWriteGuard::drop: fetch_and(!WRITER)
rw_write_drop(t) ==
    /\ rwpc[t] = "write"
    /\ rwstate' = IF writer_bit(rwstate) THEN rwstate - WRITER ELSE rwstate
    /\ rwpc' = [rwpc EXCEPT ![t] = "idle"]
    /\ UNCHANGED <<rwcall, rwseen, rwsince>>
    /\ UNCHANGED nonRwVars

RwLockNext ==
    \E t \in RwThreads :
        \/ \E call \in {"try_read", "read"} : rw_read_begin(t, call)
        \/ rw_read_load(t)
        \/ rw_read_cas(t)
        \/ rw_read_drop(t)
        \/ \E call \in {"try_write", "write"} : rw_write_begin(t, call)
        \/ rw_write_cas(t)
        \/ rw_write_drop(t)

(***************************************************************************)
(* Byte lock: src/src/bytelock.rs                                          *)
(***************************************************************************)
NumBlThreads == 3   \* threads using the lock
MaxBlAddr    == 2   \* addresses the lock may be at, in units of its alignment

MAX_SLOTS == 127
BlAlign   == 8

BlThreads == 1..NumBlThreads

\* ByteLock::slot: the address of the lock modulo MAX_SLOTS
slot(id) == id % MAX_SLOTS

\* ByteLock::new, at one of the addresses
BlInit ==
    /\ bl_id \in {BlAlign * k : k \in 1..MaxBlAddr}
    /\ bl_writer = FALSE
    /\ bl_readers = {}
    /\ bl_pc = [t \in BlThreads |-> "idle"]
    /\ bl_idx = [t \in BlThreads |-> 0]

\* a ByteLock nobody uses
BlIdle ==
    /\ bl_id = BlAlign
    /\ bl_writer = FALSE
    /\ bl_readers = {}
    /\ bl_pc = [t \in BlThreads |-> "idle"]
    /\ bl_idx = [t \in BlThreads |-> 0]

\* ByteLock::read: readers[slot].store(1), fence; on a call and on every
\* iteration of the loop
bl_read_store(t) ==
    /\ bl_pc[t] \in {"idle", "r_store"}
    /\ bl_readers' = bl_readers \cup {slot(bl_id)}
    /\ bl_pc' = [bl_pc EXCEPT ![t] = "r_check"]
    /\ UNCHANGED <<bl_id, bl_writer, bl_idx>>
    /\ UNCHANGED nonBlVars

\* ByteLock::read: if !writer.load() { break }, returning the read guard
bl_read_check(t) ==
    /\ bl_pc[t] = "r_check"
    /\ bl_pc' = [bl_pc EXCEPT ![t] = IF ~bl_writer THEN "reading" ELSE "r_undo"]
    /\ UNCHANGED <<bl_id, bl_writer, bl_readers, bl_idx>>
    /\ UNCHANGED nonBlVars

\* ByteLock::read: readers[slot].store(0) after a writer was seen
bl_read_undo(t) ==
    /\ bl_pc[t] = "r_undo"
    /\ bl_readers' = bl_readers \ {slot(bl_id)}
    /\ bl_pc' = [bl_pc EXCEPT ![t] = "r_wait"]
    /\ UNCHANGED <<bl_id, bl_writer, bl_idx>>
    /\ UNCHANGED nonBlVars

\* ByteLock::read: while writer.load() { backoff.spin() } ends
bl_read_wait(t) ==
    /\ bl_pc[t] = "r_wait"
    /\ ~bl_writer
    /\ bl_pc' = [bl_pc EXCEPT ![t] = "r_store"]
    /\ UNCHANGED <<bl_id, bl_writer, bl_readers, bl_idx>>
    /\ UNCHANGED nonBlVars

\* Drop for ByteLockReadGuard: readers[self.slot].store(0)
bl_read_drop(t) ==
    /\ bl_pc[t] = "reading"
    /\ bl_readers' = bl_readers \ {slot(bl_id)}
    /\ bl_pc' = [bl_pc EXCEPT ![t] = "idle"]
    /\ UNCHANGED <<bl_id, bl_writer, bl_idx>>
    /\ UNCHANGED nonBlVars

\* ByteLock::write: while writer.swap(true) { backoff.spin() } ends with the
\* swap that finds false
bl_write_swap(t) ==
    /\ bl_pc[t] = "idle"
    /\ ~bl_writer
    /\ bl_writer' = TRUE
    /\ bl_pc' = [bl_pc EXCEPT ![t] = "w_scan"]
    /\ bl_idx' = [bl_idx EXCEPT ![t] = 0]
    /\ UNCHANGED <<bl_id, bl_readers>>
    /\ UNCHANGED nonBlVars

\* ByteLock::write: for reader in &readers { while reader.load() != 0 { spin } },
\* one reader byte that is found 0; after the last one the write guard is
\* returned
bl_write_scan(t) ==
    /\ bl_pc[t] = "w_scan"
    /\ bl_idx[t] \notin bl_readers
    /\ IF bl_idx[t] + 1 < MAX_SLOTS
         THEN /\ bl_idx' = [bl_idx EXCEPT ![t] = @ + 1]
              /\ UNCHANGED bl_pc
         ELSE /\ bl_idx' = [bl_idx EXCEPT ![t] = 0]
              /\ bl_pc' = [bl_pc EXCEPT ![t] = "writing"]
    /\ UNCHANGED <<bl_id, bl_writer, bl_readers>>
    /\ UNCHANGED nonBlVars

\* Drop for ByteLockWriteGuard: writer.store(false)
bl_write_drop(t) ==
    /\ bl_pc[t] = "writing"
    /\ bl_writer' = FALSE
    /\ bl_pc' = [bl_pc EXCEPT ![t] = "idle"]
    /\ UNCHANGED <<bl_id, bl_readers, bl_idx>>
    /\ UNCHANGED nonBlVars

ByteLockNext ==
    \E t \in BlThreads :
        \/ bl_read_store(t)
        \/ bl_read_check(t)
        \/ bl_read_undo(t)
        \/ bl_read_wait(t)
        \/ bl_read_drop(t)
        \/ bl_write_swap(t)
        \/ bl_write_scan(t)
        \/ bl_write_drop(t)

(***************************************************************************)
(* Single-writer lock: src/src/swlock.rs                                   *)
(***************************************************************************)
NumSwReaders == 3   \* reader threads; one more thread is the designated writer
MaxSwGuards  == 3   \* read guards one thread holds at a time

SwReaders == 1..NumSwReaders

\* SwLock::new
SwInit ==
    /\ sw_readers = 0
    /\ sw_held = [t \in SwReaders |-> 0]
    /\ sw_writing = FALSE

\* SwLock::read: readers.fetch_add(1), returning the read guard
sw_read(t) ==
    /\ sw_held[t] < MaxSwGuards
    /\ sw_readers' = sw_readers + 1
    /\ sw_held' = [sw_held EXCEPT ![t] = @ + 1]
    /\ UNCHANGED sw_writing
    /\ UNCHANGED nonSwVars

\* Drop for SwLockReadGuard: readers.fetch_sub(1)
sw_read_drop(t) ==
    /\ sw_held[t] > 0
    /\ sw_readers' = sw_readers - 1
    /\ sw_held' = [sw_held EXCEPT ![t] = @ - 1]
    /\ UNCHANGED sw_writing
    /\ UNCHANGED nonSwVars

\* SwLock::write, called by the designated writer: the loop
\* while readers.load() != 0 { backoff.spin() } ends with the load that finds
\* 0, and the write guard is returned
sw_write ==
    /\ ~sw_writing
    /\ sw_readers = 0
    /\ sw_writing' = TRUE
    /\ UNCHANGED <<sw_readers, sw_held>>
    /\ UNCHANGED nonSwVars

\* Drop for SwLockWriteGuard: fence_release()
sw_write_drop ==
    /\ sw_writing
    /\ sw_writing' = FALSE
    /\ UNCHANGED <<sw_readers, sw_held>>
    /\ UNCHANGED nonSwVars

SwLockNext ==
    \/ \E t \in SwReaders :
          \/ sw_read(t)
          \/ sw_read_drop(t)
    \/ sw_write
    \/ sw_write_drop

(***************************************************************************)
(* Robin-hood hash set, one writer: src/src/rhs.rs                         *)
(***************************************************************************)
MaxRhsWrap    == 1  \* the values are k * RHS_CAPACITY + r,
MaxRhsResidue == 1  \*   k in 0..MaxRhsWrap and r in 0..MaxRhsResidue
MaxRhsCalls   == 4  \* calls made on the set

\* DEFAULT_CAPACITY of rhs.rs
RHS_CAPACITY == 16

RhsValues ==
    {k * RHS_CAPACITY + r : k \in 0..MaxRhsWrap, r \in 0..MaxRhsResidue}

\* SimpleHasher::write from state 0 followed by finish; the values hashed stay
\* far below 2^64, where wrapping_mul and wrapping_add do not wrap
RECURSIVE simple_write(_, _)
simple_write(state, bytes) ==
    IF bytes = <<>> THEN state
    ELSE simple_write(state * 31 + Head(bytes), Tail(bytes))

\* RobinHoodSet::hash_value of an i32
rhs_hash_value(v) == simple_write(0, i32_bytes(v))

\* the loop of contains and of remove: from index, at most n buckets; the
\* index of the entry that matches, or -1 where the loop returns false (a
\* null bucket, or n buckets probed)
RECURSIVE rhs_probe(_, _, _, _)
rhs_probe(hash, v, index, n) ==
    IF n = 0 THEN -1
    ELSE IF rhsBuckets[index] = NullEntry THEN -1
    ELSE IF rhsBuckets[index][1] = hash /\ rhsBuckets[index][3] = v THEN index
    ELSE rhs_probe(hash, v, (index + 1) % RHS_CAPACITY, n - 1)

\* the loop of insert: from index, at most n buckets; the index of the first
\* null bucket, or -1
RECURSIVE rhs_find_empty(_, _)
rhs_find_empty(index, n) ==
    IF n = 0 THEN -1
    ELSE IF rhsBuckets[index] = NullEntry THEN index
    ELSE rhs_find_empty((index + 1) % RHS_CAPACITY, n - 1)

\* where contains(v) and remove(v) find v, or -1
rhs_lookup(v) ==
    rhs_probe(rhs_hash_value(v), v, rhs_hash_value(v) % RHS_CAPACITY, RHS_CAPACITY)

\* RobinHoodSet::new: DEFAULT_CAPACITY null buckets
RhsInit ==
    /\ rhsBuckets = [i \in 0..(RHS_CAPACITY - 1) |-> NullEntry]
    /\ rhsSize = 0
    /\ rhsRet = FALSE
    /\ rhsIn = {}
    /\ rhsCalls = 0

\* RobinHoodSet::contains
rhs_contains(v) ==
    /\ rhsCalls < MaxRhsCalls
    /\ rhsCalls' = rhsCalls + 1
    /\ rhsRet' = (rhs_lookup(v) # -1)
    /\ UNCHANGED <<rhsBuckets, rhsSize, rhsIn>>
    /\ UNCHANGED nonRhsVars

\* RobinHoodSet::insert: false if contains(value); else the entry, with
\* probe_distance 0, goes to the first null bucket from its index
rhs_insert(v) ==
    LET hash  == rhs_hash_value(v)
        index == rhs_find_empty(hash % RHS_CAPACITY, RHS_CAPACITY)
    IN  /\ rhsCalls < MaxRhsCalls
        /\ rhsCalls' = rhsCalls + 1
        /\ rhsIn' = rhsIn \cup {v}
        /\ IF rhs_lookup(v) # -1 \/ index = -1
             THEN /\ rhsRet' = FALSE
                  /\ UNCHANGED <<rhsBuckets, rhsSize>>
             ELSE /\ rhsBuckets' = [rhsBuckets EXCEPT ![index] = <<hash, 0, v>>]
                  /\ rhsSize' = rhsSize + 1
                  /\ rhsRet' = TRUE
        /\ UNCHANGED nonRhsVars

\* RobinHoodSet::remove: the bucket of the matching entry is set to null
rhs_remove(v) ==
    LET index == rhs_lookup(v)
    IN  /\ rhsCalls < MaxRhsCalls
        /\ rhsCalls' = rhsCalls + 1
        /\ rhsIn' = rhsIn \ {v}
        /\ IF index # -1
             THEN /\ rhsBuckets' = [rhsBuckets EXCEPT ![index] = NullEntry]
                  /\ rhsSize' = rhsSize - 1
                  /\ rhsRet' = TRUE
             ELSE /\ rhsRet' = FALSE
                  /\ UNCHANGED <<rhsBuckets, rhsSize>>
        /\ UNCHANGED nonRhsVars

RobinHoodNext ==
    \E v \in RhsValues :
        \/ rhs_contains(v)
        \/ rhs_insert(v)
        \/ rhs_remove(v)

(***************************************************************************)
(* Specifications                                                          *)
(***************************************************************************)
InitEpoch == EpochRegistered /\ HpInit /\ StackInit /\ HsInit /\ HfInit /\ FifoInit /\ RingInit /\ SeqIdle /\ TicketInit /\ PfInit /\ BackoffIdle /\ BitmapInit /\ HsetInit /\ HtInit /\ RwInit /\ BlIdle /\ SwInit /\ RhsInit

SpecEpoch == InitEpoch /\ [][EpochNext]_vars

InitEpochScenario == EpochScenario /\ HpInit /\ StackInit /\ HsInit /\ HfInit /\ FifoInit /\ RingInit /\ SeqIdle /\ TicketInit /\ PfInit /\ BackoffIdle /\ BitmapInit /\ HsetInit /\ HtInit /\ RwInit /\ BlIdle /\ SwInit /\ RhsInit

SpecEpochScenario == InitEpochScenario /\ [][EpochScenarioNext]_vars

InitHp == EpochInit /\ HpRegistered /\ StackInit /\ HsInit /\ HfInit /\ FifoInit /\ RingInit /\ SeqIdle /\ TicketInit /\ PfInit /\ BackoffIdle /\ BitmapInit /\ HsetInit /\ HtInit /\ RwInit /\ BlIdle /\ SwInit /\ RhsInit

InitStack == EpochInit /\ HpInit /\ StackInit /\ HsInit /\ HfInit /\ FifoInit /\ RingInit /\ SeqIdle /\ TicketInit /\ PfInit /\ BackoffIdle /\ BitmapInit /\ HsetInit /\ HtInit /\ RwInit /\ BlIdle /\ SwInit /\ RhsInit

InitHpStack == EpochInit /\ HpPrimed /\ StackInit /\ HsInit /\ HfInit /\ FifoInit /\ RingInit /\ SeqIdle /\ TicketInit /\ PfInit /\ BackoffIdle /\ BitmapInit /\ HsetInit /\ HtInit /\ RwInit /\ BlIdle /\ SwInit /\ RhsInit

SpecHpStack == InitHpStack /\ [][HpStackNext]_vars

InitHpFifo == EpochInit /\ HpRegistered /\ StackInit /\ HsInit /\ HfInit /\ FifoInit /\ RingInit /\ SeqIdle /\ TicketInit /\ PfInit /\ BackoffIdle /\ BitmapInit /\ HsetInit /\ HtInit /\ RwInit /\ BlIdle /\ SwInit /\ RhsInit

SpecHpFifo == InitHpFifo /\ [][HpFifoNext]_vars

InitHpFifoReclaim == EpochInit /\ HpPrimed /\ StackInit /\ HsInit /\ HfInit /\ FifoInit /\ RingInit /\ SeqIdle /\ TicketInit /\ PfInit /\ BackoffIdle /\ BitmapInit /\ HsetInit /\ HtInit /\ RwInit /\ BlIdle /\ SwInit /\ RhsInit

SpecHpFifoReclaim == InitHpFifoReclaim /\ [][HpFifoReclaimNext]_vars

InitSpscFifo == EpochInit /\ HpInit /\ StackInit /\ HsInit /\ HfInit /\ FifoInit /\ RingInit /\ SeqIdle /\ TicketInit /\ PfInit /\ BackoffIdle /\ BitmapInit /\ HsetInit /\ HtInit /\ RwInit /\ BlIdle /\ SwInit /\ RhsInit

SpecSpscFifo == InitSpscFifo /\ [][SpscFifoNext]_vars

InitMpmcFifo == EpochInit /\ HpInit /\ StackInit /\ HsInit /\ HfInit /\ FifoInit /\ RingInit /\ SeqIdle /\ TicketInit /\ PfInit /\ BackoffIdle /\ BitmapInit /\ HsetInit /\ HtInit /\ RwInit /\ BlIdle /\ SwInit /\ RhsInit

SpecMpmcFifo == InitMpmcFifo /\ [][MpmcFifoNext]_vars

SpecMpmcFifoLive == InitMpmcFifo /\ [][MpmcFifoLiveNext]_vars /\ MpmcFairness

InitSpscRing == EpochInit /\ HpInit /\ StackInit /\ HsInit /\ HfInit /\ FifoInit /\ RingInit /\ SeqIdle /\ TicketInit /\ PfInit /\ BackoffIdle /\ BitmapInit /\ HsetInit /\ HtInit /\ RwInit /\ BlIdle /\ SwInit /\ RhsInit

SpecSpscRing == InitSpscRing /\ [][SpscRingNext]_vars

SpecSpscRingSeq == InitSpscRing /\ [][SpscRingSeqNext]_vars

InitSeqLock == EpochInit /\ HpInit /\ StackInit /\ HsInit /\ HfInit /\ FifoInit /\ RingInit /\ SeqInit /\ TicketInit /\ PfInit /\ BackoffIdle /\ BitmapInit /\ HsetInit /\ HtInit /\ RwInit /\ BlIdle /\ SwInit /\ RhsInit

SpecSeqLock == InitSeqLock /\ [][SeqLockNext]_vars

SpecStack == InitStack /\ [][StackNext]_vars

SpecStackSeq == InitStack /\ [][StackSeqNext]_vars

SpecStackPopAll == InitStack /\ [][StackPopAllNext]_vars

SpecHp == InitHp /\ [][HpNext]_vars

\* every thread keeps being scheduled: a call of the hazard-pointer engine that
\* can take a step eventually takes one
HpFairness == \A g \in Threads : WF_vars(HpStep(g))

SpecHpLive == InitHp /\ [][HpNext]_vars /\ HpFairness

InitHpScan == EpochInit /\ HpRetired /\ StackInit /\ HsInit /\ HfInit /\ FifoInit /\ RingInit /\ SeqIdle /\ TicketInit /\ PfInit /\ BackoffIdle /\ BitmapInit /\ HsetInit /\ HtInit /\ RwInit /\ BlIdle /\ SwInit /\ RhsInit

SpecHpScan == InitHpScan /\ [][HpScanNext]_vars

\* no thread has touched the HazardPointers yet
HpUntouched == \A g \in Threads : hpc[g] = "unreg"

\* every thread has registered with the Epoch and no call on it is in progress
EpochQuiet == \A g \in Guards : epc[g] = "idle"

\* the threads register with one Epoch, and thread 1, once registered, calls
\* try_advance while the others register; then they do the same with one
\* HazardPointers and scan. The two objects share no state, so the steps on
\* one are not interleaved with the steps on the other.
RegisterNext ==
    \/ \E g \in Guards :
          \/ HpUntouched /\ register_load(g)
          \/ HpUntouched /\ register_cas(g)
    \/ HpUntouched /\ advance_load(1)
    \/ HpUntouched /\ advance_head(1)
    \/ HpUntouched /\ advance_active(1)
    \/ HpUntouched /\ advance_cas(1)
    \/ \E g \in Threads :
          \/ EpochQuiet /\ hp_register_load(g)
          \/ EpochQuiet /\ hp_register_cas(g)
    \/ EpochQuiet /\ scan(1)
    \/ EpochQuiet /\ collect_head(1)
    \/ EpochQuiet /\ collect_active(1)
    \/ EpochQuiet /\ collect_slot(1)
    \/ EpochQuiet /\ scan_retain(1)

InitRegister == EpochInit /\ HpInit /\ StackInit /\ HsInit /\ HfInit /\ FifoInit /\ RingInit /\ SeqIdle /\ TicketInit /\ PfInit /\ BackoffIdle /\ BitmapInit /\ HsetInit /\ HtInit /\ RwInit /\ BlIdle /\ SwInit /\ RhsInit

SpecRegister == InitRegister /\ [][RegisterNext]_vars

InitTicket == EpochInit /\ HpInit /\ StackInit /\ HsInit /\ HfInit /\ FifoInit /\ RingInit /\ SeqIdle /\ TicketInit /\ PfInit /\ BackoffIdle /\ BitmapInit /\ HsetInit /\ HtInit /\ RwInit /\ BlIdle /\ SwInit /\ RhsInit

SpecTicket == InitTicket /\ [][TicketNext]_vars

SpecTicketFair == InitTicket /\ [][TicketNext]_vars /\ TicketFairness

InitPfLock == EpochInit /\ HpInit /\ StackInit /\ HsInit /\ HfInit /\ FifoInit /\ RingInit /\ SeqIdle /\ TicketInit /\ PfInit /\ BackoffIdle /\ BitmapInit /\ HsetInit /\ HtInit /\ RwInit /\ BlIdle /\ SwInit /\ RhsInit

SpecPfLock == InitPfLock /\ [][PfLockNext]_vars

InitBackoff == EpochInit /\ HpInit /\ StackInit /\ HsInit /\ HfInit /\ FifoInit /\ RingInit /\ SeqIdle /\ TicketInit /\ PfInit /\ BackoffInit /\ BitmapInit /\ HsetInit /\ HtInit /\ RwInit /\ BlIdle /\ SwInit /\ RhsInit

SpecBackoff == InitBackoff /\ [][BackoffNext]_vars

InitBitmap == EpochInit /\ HpInit /\ StackInit /\ HsInit /\ HfInit /\ FifoInit /\ RingInit /\ SeqIdle /\ TicketInit /\ PfInit /\ BackoffIdle /\ BitmapInit /\ HsetInit /\ HtInit /\ RwInit /\ BlIdle /\ SwInit /\ RhsInit

SpecBitmap == InitBitmap /\ [][BitmapNext]_vars

InitHashSet == EpochInit /\ HpInit /\ StackInit /\ HsInit /\ HfInit /\ FifoInit /\ RingInit /\ SeqIdle /\ TicketInit /\ PfInit /\ BackoffIdle /\ BitmapInit /\ HsetInit /\ HtInit /\ RwInit /\ BlIdle /\ SwInit /\ RhsInit

SpecHashSet == InitHashSet /\ [][HashSetNext]_vars

InitHashTable == EpochInit /\ HpInit /\ StackInit /\ HsInit /\ HfInit /\ FifoInit /\ RingInit /\ SeqIdle /\ TicketInit /\ PfInit /\ BackoffIdle /\ BitmapInit /\ HsetInit /\ HtInit /\ RwInit /\ BlIdle /\ SwInit /\ RhsInit

SpecHashTable == InitHashTable /\ [][HashTableNext]_vars

InitRwLock == EpochInit /\ HpInit /\ StackInit /\ HsInit /\ HfInit /\ FifoInit /\ RingInit /\ SeqIdle /\ TicketInit /\ PfInit /\ BackoffIdle /\ BitmapInit /\ HsetInit /\ HtInit /\ RwInit /\ BlIdle /\ SwInit /\ RhsInit

SpecRwLock == InitRwLock /\ [][RwLockNext]_vars

InitByteLock == EpochInit /\ HpInit /\ StackInit /\ HsInit /\ HfInit /\ FifoInit /\ RingInit /\ SeqIdle /\ TicketInit /\ PfInit /\ BackoffIdle /\ BitmapInit /\ HsetInit /\ HtInit /\ RwInit /\ BlInit /\ SwInit /\ RhsInit

SpecByteLock == InitByteLock /\ [][ByteLockNext]_vars

InitSwLock == EpochInit /\ HpInit /\ StackInit /\ HsInit /\ HfInit /\ FifoInit /\ RingInit /\ SeqIdle /\ TicketInit /\ PfInit /\ BackoffIdle /\ BitmapInit /\ HsetInit /\ HtInit /\ RwInit /\ BlIdle /\ SwInit /\ RhsInit

SpecSwLock == InitSwLock /\ [][SwLockNext]_vars

InitRobinHood == EpochInit /\ HpInit /\ StackInit /\ HsInit /\ HfInit /\ FifoInit /\ RingInit /\ SeqIdle /\ TicketInit /\ PfInit /\ BackoffIdle /\ BitmapInit /\ HsetInit /\ HtInit /\ RwInit /\ BlIdle /\ SwInit /\ RhsInit

SpecRobinHood == InitRobinHood /\ [][RobinHoodNext]_vars

(***************************************************************************)
(* Claims                                                                  *)
(***************************************************************************)

\* C1: a pointer deferred at local epoch e is never freed by try_reclaim while
\* some record is inside a critical section with local epoch e or e - 1.
C1_NoFreeWhilePinned ==
    \A f \in reclaimLog : f.e \notin f.pinned /\ (f.e - 1) \notin f.pinned

\* C2: scan never frees an address that a slot of an active record has held
\* without interruption since before the address was retired.
C2_HeldNeverFreed ==
    \A c \in heldSince : c[3] \notin freed

\* C2 witness: the retain of a scan has kept a retired address that a slot has
\* held since before its retirement.
C2_Witness ==
    \E c \in heldSince : c[3] \in scanKept /\ c[3] \in retired /\ c[3] \notin freed

C4_StackLinearizable ==
    /\ \A e \in Entries : spopcount[e] <= 1
    /\ \A t \in StackThreads : sret[t] # NULL => sret[t] = sexpect[t]
    /\ EndsAtNull(snext, shead, MaxEntries)
    /\ ChainFrom(snext, shead, MaxEntries) = smodel

\* C4 witness: one thread has popped an entry while another thread's pop, which
\* loaded the same head, is about to fail its CAS, and an entry is left.
C4_Witness ==
    /\ \E t \in StackThreads :
          spc[t] = "pop_cas" /\ spopcount[slhead[t]] = 1 /\ shead # slhead[t]
    /\ smodel # <<>>

\* C5: used by one thread, every pop returns the most recently pushed entry not
\* popped yet, and None when there is none.
C5_SingleThreadLifo ==
    sret[1] = sexpect[1]

\* C5 witness: all entries were pushed, two pops returned entries and the
\* stack is empty again.
C5_Witness ==
    /\ sgiven = Entries
    /\ smodel = <<>>
    /\ spc[1] = "idle"
    /\ sret[1] # NULL
    /\ \A e \in Entries : spopcount[e] >= 1

\* C6: on the HP-protected FIFO, each entry enqueued once: no entry is returned
\* by two dequeues; the entries one thread enqueued are dequeued in the order
\* it enqueued them; and when no call is in progress and a dequeue would return
\* None (head is null), every enqueued entry has been dequeued.
C6_NoLossNoDupOrder ==
    /\ \A i, j \in 1..Len(hfdeq) : i # j => hfdeq[i] # hfdeq[j]
    /\ \A g \in Threads : \A i, j \in 1..Len(hfby[g]) :
          (i < j /\ \E m \in 1..Len(hfdeq) : hfdeq[m] = hfby[g][j]) =>
              \E k, m \in 1..Len(hfdeq) :
                  k < m /\ hfdeq[k] = hfby[g][i] /\ hfdeq[m] = hfby[g][j]
    /\ ((\A g \in Threads : hpc[g] = "idle") /\ hfhead = NULL) =>
          \A e \in HfEnqueued : \E m \in 1..Len(hfdeq) : hfdeq[m] = e

\* C7: on the HP-protected FIFO whose dequeued entries are retired and freed by
\* scan: no enqueue or dequeue is about to load or CAS the next field of a
\* freed entry, and neither head nor tail points at a freed entry.
C7_NoFreedAccess ==
    /\ \A g \in Threads :
          hpc[g] \in {"hf_enq_next", "hf_enq_link", "hf_deq_next"} =>
              hfl[g] \notin freed
    /\ hfhead \notin freed
    /\ hftail \notin freed

\* C8: on an SpscFifo with one producer and one consumer, the entries dequeue
\* has returned are the first of the enqueued entries, in enqueue order, and
\* when both threads are idle and a dequeue would return None (head is null),
\* every enqueued entry has been returned.
C8_SpscFifoOrder ==
    /\ Len(fdeq) <= Len(fenq)
    /\ \A i \in 1..Len(fdeq) : i <= Len(fenq) /\ fdeq[i] = fenq[i]
    /\ (fpc[Producer] = "idle" /\ fpc[Consumer] = "idle" /\ fhead = NULL) =>
          fdeq = fenq

\* C9: on an MpmcFifo, the entries dequeue has returned are the first of the
\* enqueued entries, in the order their enqueues took effect, each once; and
\* whenever a dequeue would return None (head unlocked and null), no entry whose
\* enqueue has returned is still to be dequeued.
C9_MpmcFifoOrder ==
    /\ \A i \in 1..Len(fdeq) : i <= Len(fenq) /\ fdeq[i] = fenq[i]
    /\ (~head_locked /\ fhead = NULL) => FifoPending = {}

\* the items in the slots from index head up to index tail
RECURSIVE RingItems(_, _)
RingItems(head, tail) ==
    IF head = tail THEN <<>>
    ELSE <<rbuffer[head]>> \o RingItems((head + 1) % RingN, tail)

\* C10: with one producer and one consumer on an SpscRing, the items dequeue
\* has returned are the first of the successfully enqueued items, in order and
\* once each, and the slots from head to tail hold the others; the consumer
\* reads only a slot the producer has finished writing and is not writing, and
\* the producer writes only a slot whose item the consumer has read.
C10_SpscRingFifo ==
    /\ Len(rdeq) <= Len(renq)
    /\ \A i \in 1..Len(rdeq) : rdeq[i] = renq[i]
    /\ rpc[Consumer] \in {"idle", "deq_tail", "deq_read"} =>
          RingItems(rhead, rtail) = SubSeq(renq, Len(rdeq) + 1, Len(renq))
    /\ rpc[Consumer] = "deq_read" =>
          /\ rinit[rl[Consumer]]
          /\ ~(rpc[Producer] = "enq_write" /\ rl[Producer] = rl[Consumer])
    /\ rpc[Producer] = "enq_write" => ~rinit[rl[Producer]]

\* C10 witness: the indices have wrapped around, and the consumer is about to
\* read a slot while the producer is about to write another one.
C10_Witness ==
    /\ rpc[Producer] = "enq_write"
    /\ rpc[Consumer] = "deq_read"
    /\ Len(renq) > RingN
    /\ rl[Producer] < rl[Consumer]

\* the number of items stored in the ring when no call is in progress
RingStored == Len(renq) - Len(rdeq)

\* C11: for any sequence of enqueue and dequeue calls on an SpscRing, wrap-around
\* included: an enqueue returns Err exactly when N - 1 items are stored, a
\* dequeue returns None exactly when none is stored, and the number of stored
\* items stays between 0 and N - 1.
C11_RingFullEmpty ==
    [][/\ (rpc[Producer] = "enq_head" /\ rpc'[Producer] = "idle")
             <=> (rpc[Producer] = "enq_head" /\ RingStored = RingN - 1)
       /\ (rpc[Consumer] = "deq_tail" /\ rpc'[Consumer] = "idle")
             <=> (rpc[Consumer] = "deq_tail" /\ RingStored = 0)
       /\ RingStored' \in 0..(RingN - 1)]_vars

\* C11 witness: after the indices have wrapped around, an enqueue is about to
\* find the ring full, N - 1 items being stored.
C11_Witness ==
    /\ rpc[Producer] = "enq_head"
    /\ Len(renq) > RingN
    /\ RingStored = RingN - 1
    /\ rl[Producer] < rhead

\* C12: with one writer and several readers of a SeqLock, the two words a read
\* returns are those of one complete write (or the initial data), never a mix,
\* and they are at least as recent as the last write that had returned when
\* the read was called.
C12_SeqLockConsistentRead ==
    \A r \in Readers :
        sqpc[r] = "returned" =>
            /\ sqres[r][1] = sqres[r][2]
            /\ sqres[r][1] >= sqstart[r]

\* C12 witness: a read that had to start again because of a write returns the
\* data of the second write, while the counter has wrapped around.
C12_Witness ==
    \E r \in Readers :
        /\ sqpc[r] = "returned"
        /\ sqres[r] = <<2, 2>>
        /\ sqseen[r] > sqstart[r]
        /\ sequence[1] = 0

\* C13: when read_retry(v) is about to return false (the counter equals v), no
\* write_end has occurred since read_begin returned v.
C13_RetryFalseNoWrite ==
    \A r \in Readers :
        (sqpc[r] = "retry" /\ sequence = sqver[r]) => sqended = sqseen[r]

\* C13 witness: read_retry is about to return true after a write_begin and
\* write_end pair that followed read_begin.
C13_Witness ==
    \E r \in Readers :
        /\ sqpc[r] = "retry"
        /\ sqwpc = "idle"
        /\ sqended > sqseen[r]
        /\ sequence # sqver[r]

TicketGuards == {t \in TicketThreads : tpc[t] \in {"held", "try_held"}}

\* C14: for TicketLock with lock, try_lock and drops by several threads, at
\* most one guard exists at any time; the step of try_lock that returns the
\* guard is taken only when next_ticket equals now_serving and the local
\* ticket, and raises next_ticket by one; a try_lock that returns None leaves
\* both counters as they were.
C14_TicketTryLock ==
    /\ [](Cardinality(TicketGuards) <= 1)
    /\ [][\A t \in TicketThreads :
            /\ (tpc[t] = "try_cas" /\ tpc'[t] = "try_held") =>
                  /\ next_ticket = now_serving
                  /\ next_ticket = tticket[t]
                  /\ next_ticket' = next_ticket + 1
                  /\ now_serving' = now_serving
            /\ (tpc[t] \in {"try_serving", "try_cas"} /\ tpc'[t] = "idle") =>
                  /\ next_ticket' = next_ticket
                  /\ now_serving' = now_serving]_vars

\* C14 witness: a try_lock has the guard while a lock waits and another
\* try_lock, which saw the lock free, is about to fail its compare_exchange.
C14_Witness ==
    \E t, u, w \in TicketThreads :
        /\ tpc[t] = "try_held"
        /\ now_serving > 0
        /\ tpc[u] = "try_cas"
        /\ tticket[u] # next_ticket
        /\ tpc[w] = "spin"

\* C15: a call of lock acquires the lock only when no call of lock that did
\* its fetch_add on next_ticket earlier (and so holds a smaller ticket) is
\* still waiting, and nobody holds a guard.
C15_TicketFifo ==
    [][\A t \in TicketThreads :
          (tpc[t] = "spin" /\ tpc'[t] = "held") =>
              /\ \A u \in TicketThreads :
                    tpc[u] = "spin" => tticket[u] >= tticket[t]
              /\ TicketGuards = {}]_vars

\* C15 witness: the first of three concurrent calls of lock has dropped its
\* guard, the second holds the lock and the third, with the next ticket, waits.
C15_Witness ==
    \E t, u \in TicketThreads :
        /\ tpc[t] = "held"
        /\ tticket[t] = 1
        /\ now_serving = 1
        /\ tpc[u] = "spin"
        /\ tticket[u] = 2

\* C16: under fair scheduling, with every guard dropped in the end, every call
\* of lock that has taken its ticket returns with the lock.
C16_TicketNoStarvation ==
    \A t \in TicketThreads : (tpc[t] = "spin") ~> (tpc[t] = "held")

\* C16 witness: a call of lock waits behind another waiting call and behind a
\* guard that try_lock returned.
C16_Witness ==
    \E t, u, w \in TicketThreads :
        /\ tpc[t] = "spin"
        /\ tticket[t] = now_serving + 2
        /\ tpc[u] = "try_held"
        /\ tpc[w] = "spin"
        /\ tticket[w] = now_serving + 1

\* C17: in every reachable state of PfLock a write guard never coexists with a
\* read guard, at most one write guard exists, the writer bit is set exactly
\* while some writer waits for the readers or holds the lock, and the reader
\* field is 4 times the number of live read guards.
C17_PfLockState ==
    /\ Cardinality(WriteGuards) <= 1
    /\ WriteGuards # {} => ReadGuards = {}
    /\ (pfstate % 2 = 1) <=> (\E t \in PfThreads : pfpc[t] \in {"w_wait", "write_held"})
    /\ (pfstate \div 4) * 4 = RINC * Cardinality(ReadGuards)
    /\ (pfstate \div 2) % 2 = 0

\* C17 witness: a writer has set the writer bit and waits for two live read
\* guards.
C17_Witness ==
    /\ \E t \in PfThreads : pfpc[t] = "w_wait"
    /\ Cardinality(ReadGuards) = 2
    /\ pfstate = 2 * RINC + WBIT

\* C18: while the writer bit is set no call of read acquires a read guard (the
\* set of read guards only shrinks), the writer's second loop ends only when no
\* read guard is left, and once none is left the loop's next load ends it.
C18_WriterBlocksReaders ==
    /\ [][(pfstate % 2 = 1) =>
             /\ ReadGuards' \subseteq ReadGuards
             /\ \A w \in PfThreads :
                   (pfpc[w] = "w_wait" /\ pfpc'[w] # "w_wait") =>
                       (ReadGuards = {} /\ pfpc'[w] = "write_held")]_vars
    /\ [](\A w \in PfThreads :
             (pfpc[w] = "w_wait" /\ ReadGuards = {}) => readers_gone(pfstate))

\* C18 witness: a writer holds the lock after the one read guard that existed
\* when it set the bit was dropped, while a call of read that loaded the state
\* before the bit was set is about to fail its compare_exchange.
C18_Witness ==
    \E w, r \in PfThreads :
        /\ pfpc[w] = "write_held"
        /\ pfpc[r] = "r_cas"
        /\ pflocal[r] = RINC
        /\ pfstate = WBIT

\* C19: no call of write holds the write guard while a call of read that was
\* already spinning when that call of write started, and was spinning when a
\* write guard was dropped, is still without its read guard.
C19_PhaseFair ==
    \A w \in PfThreads :
        pfpc[w] = "write_held" =>
            \A r \in pfbefore[w] : ~pfdropped[r]

OnRetireList(g) == {retire_list[g][i] : i \in 1..Len(retire_list[g])}

C21_ReclaimAfterTwoAdvances ==
    [][(/\ GLOBAL_EPOCH = 2
        /\ active[1] = 0
        /\ \E it \in garbage[1][defer_bucket(0)] : it[2] = 0
        /\ ecalls' = ecalls + 1
        /\ epc' = epc
        /\ active' = active
        /\ enextptr' = enextptr)
          => (\A it \in garbage[1][defer_bucket(0)] :
                 it[2] = 0 => it \notin garbage'[1][defer_bucket(0)])]_vars

\* C22: while the last thread stays inside the critical section it entered at
\* epoch 0, no pointer that thread 1 deferred at local epoch 0 is freed.
C22_PinnedBlocksFree ==
    active[NumGuards] > 0 => \A f \in reclaimLog : f.e # 0

\* C29: the bucket try_reclaim drains at a record's local epoch e is neither
\* the bucket defer_free fills at epoch e nor the one it fills at epoch e - 1.
C29_ReclaimBucket ==
    \A g \in Guards :
        epoch[g] >= 1 =>
            /\ old_epoch(epoch[g]) # defer_bucket(epoch[g])
            /\ old_epoch(epoch[g]) # defer_bucket(epoch[g] - 1)

\* C30: while a record is active, GLOBAL_EPOCH is at most one ahead of the
\* record's local epoch.
C30_GlobalAtMostOneAhead ==
    \A g \in Guards : active[g] > 0 => GLOBAL_EPOCH <= epoch[g] + 1

\* C23: for a Backoff whose value v is at most BACKOFF_CEILING, spin sets the
\* value to min(2 * v, BACKOFF_CEILING): it never exceeds the ceiling, never
\* decreases, stays at the ceiling once there and stays 0 when it is 0.
C23_SpinSaturates ==
    /\ [][blast' = "spin" =>
            /\ bvalue' = (IF 2 * bvalue <= BACKOFF_CEILING
                            THEN 2 * bvalue ELSE BACKOFF_CEILING)
            /\ bvalue' >= bvalue
            /\ bvalue' <= BACKOFF_CEILING]_vars
    /\ [](bvalue <= BACKOFF_CEILING)

\* C23 witness: a Backoff made by with_initial(1) has reached the ceiling by
\* spinning.
C23_Witness ==
    /\ binit = 1
    /\ blast = "spin"
    /\ bvalue = BACKOFF_CEILING

\* C24: after reset() the value is the one the instance was constructed with.
C24_ResetToInitial ==
    blast = "reset" => bvalue = binit

C26_SetSemantics ==
    /\ \A x \in HsetValues : hset_match(x) <=> x \in hsetIn
    /\ hsetLast.op = "contains" => hsetLast.ret = hsetLast.was
    /\ hsetLast.op = "insert" => hsetLast.ret = ~hsetLast.was
    /\ hsetLast.op = "remove" => hsetLast.ret = hsetLast.was
    /\ hsetSize = Cardinality(hsetIn)

\* C27: an entry whose value a reader holds a reference to, obtained from
\* get(), is not freed by the writer's insert or remove while the reader still
\* uses it.
C27_NoFreeWhileHeld ==
    \A r \in HtReaders : htrpc[r] = "held" => htref[r] \notin htFreed

\* C28: once a thread is waiting in write(), a read() or try_read() call that
\* starts afterwards does not acquire a read guard before that writer has
\* acquired the lock.
C28_WriterPriority ==
    \A t \in RwThreads : rwpc[t] = "read" => rwsince[t] = {}

\* C31: the local epoch of a record does not change while its critical-section
\* count is greater than 0: a nested enter() leaves it at the value pinned by
\* the outermost enter().
C31_PinnedEpochStable ==
    [][\A g \in Guards : active[g] > 0 => epoch'[g] = epoch[g]]_vars

\* C32: on the HP-protected FIFO, whenever no call is in progress: head is null
\* iff no entry is enqueued and not yet dequeued; every such entry is reachable
\* from head by following next; and tail is null only when the queue is empty,
\* otherwise it is the last or the second-to-last entry reachable from head.
C32_HeadTailShape ==
    (\A g \in Threads : hpc[g] = "idle") =>
        LET chain == HfChain(hfhead, MaxHfEntries)
            n     == Len(chain)
        IN  /\ hfhead = NULL <=> HfPending = {}
            /\ HfPending \subseteq {chain[k] : k \in 1..n}
            /\ hftail = NULL => HfPending = {}
            /\ HfPending # {} =>
                  /\ n >= 1
                  /\ hftail = chain[n] \/ (n >= 2 /\ hftail = chain[n - 1])

\* C33: a retired pointer that no hazard slot of an active record holds is
\* eventually freed, also when the thread that retired it has dropped its
\* guard.
C33_RetiredEventuallyFreed ==
    \A p \in Addrs :
        (/\ \E g \in Threads :
                /\ hpc[g] = "dropped"
                /\ \E i \in 1..Len(retire_list[g]) : retire_list[g][i] = p
         /\ ActiveCells({p}) = {})
            ~> (p \in freed)

\* the entries whose push has taken effect
SPushed == {e \in sgiven : \A t \in StackThreads : sentry[t] # e}

\* the number of places entry e is in: the chain from head, the results of
\* pops, and the chains pop_all detached
SPlaces(e) ==
    LET stack == ChainFrom(snext, shead, MaxEntries)
    IN  (IF \E i \in 1..Len(stack) : stack[i] = e THEN 1 ELSE 0)
        + spopcount[e]
        + Cardinality({k \in 1..Len(sall) :
                         \E i \in 1..Len(sall[k][2]) : sall[k][2][i] = e})

\* C34: with concurrent push, pop and pop_all, every entry pushed once: the
\* chain from the head a pop_all returned ends at null and holds the entries
\* that were in the stack at its swap, most recently pushed first; the swap
\* leaves the stack empty; and every pushed entry is in exactly one of the
\* stack, the result of a pop, or a returned chain.
C34_PopAllDetaches ==
    /\ [](\A k \in 1..Len(sall) :
            /\ EndsAtNull(snext, sall[k][1], MaxEntries)
            /\ ChainFrom(snext, sall[k][1], MaxEntries) = sall[k][2])
    /\ [](\A e \in SPushed : SPlaces(e) = 1)
    /\ [][scalls' # scalls /\ smodel' = <<>> /\ smodel # <<>> /\ sall' # sall
            => shead' = NULL]_vars

\* C34 witness: a pop_all has returned a chain of two entries while another
\* thread's pop, which had loaded the old head, is about to fail its CAS, and
\* an entry pushed afterwards is in the stack.
C34_Witness ==
    /\ Len(sall) = 1
    /\ Len(sall[1][2]) = 2
    /\ \E t \in StackThreads : spc[t] = "pop_cas" /\ slhead[t] = sall[1][1]
    /\ shead # NULL

\* the records whose register() on the Epoch has returned
ERegistered == {g \in Guards : epc[g] \notin {"unreg", "reg_cas"}}

\* the records whose register() on the HazardPointers has returned
HRegistered == {g \in Threads : hpc[g] \notin {"unreg", "reg_cas"}}

\* the records try_advance visits: records.load(), then next until null
EVisited == ChainFrom(enext, erecords, NumGuards + 1)

\* the records collect_hazards visits: records.load(), then next until null
HVisited == ChainFrom(hnext, hrecords, NumThreads + 1)

\* C35: with concurrent register() calls on one Epoch and on one
\* HazardPointers, every record whose register() has returned is reachable
\* exactly once from the records head, the walk from the head ends at null, a
\* record on the list stays on it with its next field unchanged, and a walk in
\* progress in try_advance or collect_hazards is at a record of the list.
C35_RegisterKeepsRecords ==
    /\ [](\A g \in ERegistered :
            Cardinality({i \in 1..Len(EVisited) : EVisited[i] = g}) = 1)
    /\ [](\A g \in HRegistered :
            Cardinality({i \in 1..Len(HVisited) : HVisited[i] = g}) = 1)
    /\ [](EndsAtNull(enext, erecords, NumGuards))
    /\ [](EndsAtNull(hnext, hrecords, NumThreads))
    /\ [](\A g \in Guards :
            epc[g] \in {"adv_active", "adv_epoch"}
                => \E i \in 1..Len(EVisited) : EVisited[i] = ecur[g])
    /\ [](\A g \in Threads :
            hpc[g] \in {"scan_active", "scan_slot"}
                => \E i \in 1..Len(HVisited) : HVisited[i] = hcur[g])
    /\ [][\A i \in 1..Len(EVisited) :
             /\ enext'[EVisited[i]] = enext[EVisited[i]]
             /\ \E j \in 1..Len(EVisited') : EVisited'[j] = EVisited[i]]_vars
    /\ [][\A i \in 1..Len(HVisited) :
             /\ hnext'[HVisited[i]] = hnext[HVisited[i]]
             /\ \E j \in 1..Len(HVisited') : HVisited'[j] = HVisited[i]]_vars

\* C35 witness: every thread has registered with both, the first thread last
\* on each list after the other threads, a try_advance has advanced the
\* global epoch and a scan is walking the hazard-pointer list.
C35_Witness ==
    /\ ERegistered = Guards
    /\ HRegistered = Threads
    /\ erecords = 1
    /\ hrecords = 1
    /\ GLOBAL_EPOCH > 0
    /\ hpc[1] = "scan_slot"
    /\ hcur[1] # 1

\* C36: whenever a guard is between calls of HpFifoGuard::enqueue and
\* HpFifoGuard::dequeue - no call started yet, or the last one returned -
\* its hazard slot 0 is null.
C36_SlotZeroNullAtReturn ==
    \A g \in Threads : hpc[g] = "idle" => hazards[g][0] = NULL

\* a thread inside an MpmcFifo call that is waiting for a lock another thread
\* holds
MpmcBlocked(t) ==
    \/ fpc[t] = "enq_link" /\ ftail = NULL /\ head_locked
    \/ fpc[t] = "deq_tail" /\ tail_locked

C38_ByteLockExclusion ==
    /\ \A t, u \in BlThreads : ~(bl_pc[t] = "writing" /\ bl_pc[u] = "reading")
    /\ Cardinality({t \in BlThreads : bl_pc[t] = "writing"}) <= 1

\* C39: the single writer's write guard and a read guard never exist at the
\* same time: write() returns only when no read guard exists, and no read()
\* returns a read guard while the write guard is held.
C39_SwLockExclusion ==
    /\ [](~(sw_writing /\ \E t \in SwReaders : sw_held[t] > 0))
    /\ [][sw_writing => \A t \in SwReaders : sw_held'[t] <= sw_held[t]]_vars

\* C40: after any sequence of insert and remove calls by the single writer,
\* contains(x) is true exactly for the values x inserted and not removed
\* since, and no value is stored in two buckets.
C40_RhsMembership ==
    /\ \A x \in RhsValues : (rhs_lookup(x) # -1) <=> (x \in rhsIn)
    /\ \A i, j \in 0..(RHS_CAPACITY - 1) :
          (i # j /\ rhsBuckets[i] # NullEntry /\ rhsBuckets[j] # NullEntry)
              => rhsBuckets[i][3] # rhsBuckets[j][3]

=============================================================================
